---------------------------- MODULE Spec2Model ----------------------------
(***************************************************************************)
(* Model of the document-structure and comparison engine of the arXiv      *)
(* source browser: the LaTeX comment transformer (src/src/latexComments.ts)*)
(* the TeX outline extractor (texOutline), the archive differ, the         *)
(* version-pair selection, the request handlers and the effects of         *)
(* src/src/App.tsx, the load effects of FileViewer and DiffViewer with     *)
(* their object URLs, the consumers of the text of a FileEntry, and the    *)
(* source cache of the backend (src/api/api.php).                          *)
(*                                                                         *)
(* A JavaScript string is modelled as a sequence of one-character strings. *)
(* The code indexes strings from 0; At(s, i) reads the character at the    *)
(* 0-based index i, so every index below is the index the code uses.       *)
(***************************************************************************)
EXTENDS Integers, Sequences, FiniteSets, TLC

VARIABLES
    \* ---- comment transformer (latexComments.ts)
    text,            \* the argument of stripLatexComments / buildVisibleLineMap...
    lineTransforms,  \* the transformLine result of every line of text, in order
    strippedText,    \* stripLatexComments(text)
    restrippedText,  \* stripLatexComments(strippedText)
    mapping,         \* buildVisibleLineMapAfterCommentStrip(text)
    commentPc,       \* "idle" | "input" | "stripped" | "restripped" | "mapped"
    \* ---- outline extractor (texOutline)
    textContent,     \* the argument of parseTexOutline
    outline,         \* its result: [lineCount, entries]
    matchIndices,    \* for every entry, the match.index it was found at
    outlinePc,       \* "idle" | "input" | "parsed"
    \* ---- archive differ (App.tsx)
    oldEntries,      \* the FileEntry list of the old archive
    newEntries,      \* the FileEntry list of the new archive
    unreadableFiles, \* the <<side, path>> of the files whose decompression failed
    diffResult,      \* how the promise of buildDiffEntries settled, its entries
    differPc,        \* "idle" | "input" | "settled"
    \* ---- version-pair selection (App.tsx)
    versions,        \* the DiffVersion list of the paper
    preferredFrom,   \* the preferredFromVersion argument
    preferredTo,     \* the preferredToVersion argument
    selectedPair,    \* the result of selectPreferredDiffPair
    pairPc,          \* "idle" | "input" | "selected"
    \* ---- link detector (latexLinks.ts)
    linkText,        \* the text argument of collectLatexLinkSpans
    linkMode,        \* the mode argument: "tex" | "bib" | "plain"
    linkSpans,       \* the spans it returned
    linkPc,          \* "idle" | "input" | "collected"
    \* ---- URL routing (types.ts)
    routeInput,      \* the text handed to extractArxivId
    routeArxivId,    \* the id extractArxivId returned, null if it returned none
    routeMode,       \* which URL is built: "browse" | "diff"
    routeFromVersion,\* the fromVersion argument of buildDiffURL
    routeToVersion,  \* the toVersion argument of buildDiffURL
    routeFilePath,   \* the optional filePath argument
    routeUrl,        \* the URL built
    routeState,      \* parseURL(routeUrl)
    routePc,         \* "idle" | "input" | "extracted" | "rejected" | "built" | "parsed"
    \* ---- main-file detection of browsing (App.tsx)
    archiveFiles,    \* the FileEntry list handed to findMainTexFile, in archive order
    mainTexFile,     \* the FileEntry it resolved with, null if none
    mainPc,          \* "idle" | "input" | "found"
    \* ---- default file of a comparison (App.tsx)
    builtEntries,    \* the DiffModeEntry list loadDiffPair has built
    preferredPath,   \* the preferredFilePath argument of loadDiffPair
    nextSelectedPath,\* the path loadDiffPair selects
    selectPc,        \* "idle" | "input" | "selected"
    \* ---- request handlers of the App component (App.tsx)
    app,             \* the useState values of App
    history,         \* window.history: the pathnames of its entries, the current one
    requests,        \* the handler calls started, in order: their arguments, where they wait
    sourceFetches,   \* how many source archives were requested so far
    userActions,     \* how many user events were handled so far
    \* ---- effects that read file contents (App.tsx, FileViewer.tsx, DiffViewer.tsx)
    heapFiles,       \* the FileEntry objects of the archives on display
    view,            \* the useState values of App, FileViewer and DiffViewer the effects write
    effects,         \* the effect runs and findMainTexDiffPath calls suspended at a decompression
    outlines,        \* text -> hideComments -> the outline the outline effect sets for the text
    \* ---- the two comment maskers (texOutline, latexLinks.ts)
    maskInput,       \* the text handed to both maskers
    outlineMasked,   \* what stripCommentsPreservingLength returned
    linkMasked,      \* what maskLatexCommentsPreservingLength returned
    maskPc,          \* "idle" | "input" | "outline" | "masked"
    \* ---- the outline with comments hidden (App.tsx, outline effect)
    visibleLineMap,  \* what buildVisibleLineMapAfterCommentStrip returned for textContent
    hiddenOutline,   \* the mapped and filtered entries the effect sets
    \* ---- consumers of the text of a FileEntry (App.tsx, FileViewer.tsx, DiffViewer.tsx, Search)
    contentFiles,    \* the FileEntry objects of one archive, with their cached content
    decompressions,  \* how often zipFile.async was called for the text of each of them
    \* ---- object URLs of the viewers (FileViewer.tsx, DiffViewer.tsx)
    urlViewer,       \* the viewer: which component it is, whether it is mounted, its URL states
    urlLoads,        \* the runs of its load effect, in order
    objectUrls,      \* how many object URLs were created, which of them were revoked
    \* ---- the source cache of the backend (src/api/api.php)
    cacheDir,        \* paper -> the zip file cached for it (its mtime), or null
    cacheClock,      \* time(), in seconds
    cacheRequests,   \* the getOrBuildSourceZip calls made, each at its position
    cacheRun         \* the manageCacheSize call that has just returned, and what it deleted

commentVars == <<text, lineTransforms, strippedText, restrippedText, mapping, commentPc>>

outlineVars == <<textContent, outline, matchIndices, outlinePc>>

differVars == <<oldEntries, newEntries, unreadableFiles, diffResult, differPc>>

pairVars == <<versions, preferredFrom, preferredTo, selectedPair, pairPc>>

linkVars == <<linkText, linkMode, linkSpans, linkPc>>

routeVars == <<routeInput, routeArxivId, routeMode, routeFromVersion, routeToVersion, routeFilePath, routeUrl, routeState, routePc>>

mainVars == <<archiveFiles, mainTexFile, mainPc>>

selectVars == <<builtEntries, preferredPath, nextSelectedPath, selectPc>>

appVars == <<app, history, requests, sourceFetches, userActions>>

effectVars == <<heapFiles, view, effects, outlines>>

maskVars == <<maskInput, outlineMasked, linkMasked, maskPc>>

hideVars == <<visibleLineMap, hiddenOutline>>

contentVars == <<contentFiles, decompressions>>

urlVars == <<urlViewer, urlLoads, objectUrls>>

cacheVars == <<cacheDir, cacheClock, cacheRequests, cacheRun>>

vars == <<commentVars, outlineVars, differVars, pairVars, linkVars, routeVars, mainVars, selectVars, appVars, effectVars, maskVars, hideVars, contentVars, urlVars, cacheVars>>

-----------------------------------------------------------------------------
(* Bounds of the model *)

\* longest text of the comment transformer, in characters
MaxTextLen == 4

\* most fragments an outline content is put together from
MaxFragments == 3

\* most files of one archive
MaxFiles == 2

\* most files of an archive handed to the main-file detection
MaxArchiveFiles == 3

\* the number of user events a run of the App component handles
MaxUserActions == 3

\* how often one file is decompressed at most
MaxDecompressions == 3

\* how many files a viewer is given one after the other
MaxShownFiles == 3

\* how many papers outside the cache are requested
MaxNewPapers == 2

\* how many requests the backend serves
MaxCacheRequests == 2

\* the version numbers of a paper are 1..MaxVersion
MaxVersion == 3

\* a version number no paper of the model has
InvalidVersion == 99

-----------------------------------------------------------------------------
(* Strings *)

BACKSLASH == "\\"
NEWLINE == "\n"
TAB == "\t"
SPACE == " "
PERCENT == "%"

\* s[i] of the code, i counted from 0
At(s, i) == s[i + 1]

\* s.slice(from, to) for 0 <= from <= to <= s.length
Slice(s, from, to) == SubSeq(s, from + 1, to)

\* all strings over chars of length at most n
StringsUpTo(chars, n) == UNION {[1..k -> chars] : k \in 0..n}

Min(S) == CHOOSE x \in S : \A y \in S : x <= y
Max(S) == CHOOSE x \in S : \A y \in S : x >= y

\* text.split('\n'): the pieces between the newline characters, always at
\* least one piece
RECURSIVE SplitFrom(_, _, _)
SplitFrom(s, i, piece) ==
    IF i >= Len(s) THEN <<piece>>
    ELSE IF At(s, i) = NEWLINE THEN <<piece>> \o SplitFrom(s, i + 1, <<>>)
    ELSE SplitFrom(s, i + 1, Append(piece, At(s, i)))

SplitLines(s) == SplitFrom(s, 0, <<>>)

\* lines.join('\n')
RECURSIVE JoinLines(_)
JoinLines(lines) ==
    IF Len(lines) = 0 THEN <<>>
    ELSE IF Len(lines) = 1 THEN lines[1]
    ELSE lines[1] \o <<NEWLINE>> \o JoinLines(Tail(lines))

-----------------------------------------------------------------------------
(* latexComments.ts *)

\* the inner while loop of transformLine: the number of consecutive
\* backslashes that end at index j
RECURSIVE CountBackslashes(_, _)
CountBackslashes(s, j) ==
    IF j >= 0 /\ At(s, j) = BACKSLASH THEN 1 + CountBackslashes(s, j - 1) ELSE 0

\* line.replace(/[ \t]+$/, '')
RECURSIVE TrimTrailingBlanks(_)
TrimTrailingBlanks(s) ==
    IF Len(s) > 0 /\ s[Len(s)] \in {SPACE, TAB}
    THEN TrimTrailingBlanks(SubSeq(s, 1, Len(s) - 1))
    ELSE s

\* mutant: the parity test of the escape rule is inverted
RECURSIVE TransformLineFromOddParity(_, _)
TransformLineFromOddParity(line, i) ==
    IF i >= Len(line) THEN [removeLine |-> FALSE, transformedLine |-> line]
    ELSE IF At(line, i) # PERCENT THEN TransformLineFromOddParity(line, i + 1)
    ELSE IF CountBackslashes(line, i - 1) % 2 = 1
         THEN IF i = 0
              THEN [removeLine |-> TRUE, transformedLine |-> <<>>]
              ELSE [removeLine |-> FALSE,
                    transformedLine |-> TrimTrailingBlanks(Slice(line, 0, i))]
         ELSE TransformLineFromOddParity(line, i + 1)

\* mutant: the scan does not stop at the first comment marker, the last one
\* decides
TransformLineFromLastMarker(line, i) ==
    LET starts == {n \in i..(Len(line) - 1) :
                      At(line, n) = PERCENT /\ CountBackslashes(line, n - 1) % 2 = 0}
        last == CHOOSE n \in starts : \A m \in starts : m <= n
    IN  IF starts = {} THEN [removeLine |-> FALSE, transformedLine |-> line]
        ELSE IF last = 0 THEN [removeLine |-> TRUE, transformedLine |-> <<>>]
        ELSE [removeLine |-> FALSE,
              transformedLine |-> TrimTrailingBlanks(Slice(line, 0, last))]

\* the for loop of transformLine, entered at index i
RECURSIVE TransformLineFrom(_, _)
TransformLineFrom(line, i) ==
    IF i >= Len(line) THEN [removeLine |-> FALSE, transformedLine |-> line]
    ELSE IF At(line, i) # PERCENT THEN TransformLineFrom(line, i + 1)
    ELSE IF CountBackslashes(line, i - 1) % 2 = 0
         THEN IF i = 0
              THEN [removeLine |-> TRUE, transformedLine |-> <<>>]
              ELSE [removeLine |-> FALSE,
                    transformedLine |-> TrimTrailingBlanks(Slice(line, 0, i))]
         ELSE TransformLineFrom(line, i + 1)

transformLine(line) == TransformLineFrom(line, 0)

\* the loop of stripLatexComments over the lines: the lines pushed to
\* outputLines
RECURSIVE OutputLines(_)
OutputLines(lines) ==
    IF Len(lines) = 0 THEN <<>>
    ELSE LET t == transformLine(lines[1])
         IN  IF t.removeLine THEN OutputLines(Tail(lines))
             ELSE <<t.transformedLine>> \o OutputLines(Tail(lines))

stripLatexComments(s) == JoinLines(OutputLines(SplitLines(s)))

\* mutant: visibleLine is incremented before the removeLine test, so removed
\* lines are counted too
RECURSIVE VisibleLineMapCountingRemoved(_, _)
VisibleLineMapCountingRemoved(lines, visibleLine) ==
    IF Len(lines) = 0 THEN <<>>
    ELSE IF transformLine(lines[1]).removeLine
         THEN <<0>> \o VisibleLineMapCountingRemoved(Tail(lines), visibleLine + 1)
         ELSE <<visibleLine + 1>>
                  \o VisibleLineMapCountingRemoved(Tail(lines), visibleLine + 1)

\* mutant: the removeLine test is missing, every line counts as visible
RECURSIVE VisibleLineMapKeepingAll(_, _)
VisibleLineMapKeepingAll(lines, visibleLine) ==
    IF Len(lines) = 0 THEN <<>>
    ELSE <<visibleLine + 1>> \o VisibleLineMapKeepingAll(Tail(lines), visibleLine + 1)

\* the loop of buildVisibleLineMapAfterCommentStrip, visibleLine being the
\* number of lines kept so far
RECURSIVE VisibleLineMapFrom(_, _)
VisibleLineMapFrom(lines, visibleLine) ==
    IF Len(lines) = 0 THEN <<>>
    ELSE IF transformLine(lines[1]).removeLine
         THEN <<0>> \o VisibleLineMapFrom(Tail(lines), visibleLine)
         ELSE <<visibleLine + 1>> \o VisibleLineMapFrom(Tail(lines), visibleLine + 1)

buildVisibleLineMapAfterCommentStrip(s) == VisibleLineMapFrom(SplitLines(s), 0)

-----------------------------------------------------------------------------
(* texOutline: src/unnamed/part_006 *)

\* null, as a value that compares with the records the functions return
Null == [isNull |-> TRUE]

SECTION_COMMANDS ==
    << <<"p", "a", "r", "t">>,
       <<"c", "h", "a", "p", "t", "e", "r">>,
       <<"s", "e", "c", "t", "i", "o", "n">>,
       <<"s", "u", "b", "s", "e", "c", "t", "i", "o", "n">>,
       <<"s", "u", "b", "s", "u", "b", "s", "e", "c", "t", "i", "o", "n">>,
       <<"p", "a", "r", "a", "g", "r", "a", "p", "h">>,
       <<"s", "u", "b", "p", "a", "r", "a", "g", "r", "a", "p", "h">> >>

\* SECTION_LEVEL_MAP.get(command): the index of the command in SECTION_COMMANDS
SECTION_LEVEL_MAP(command) ==
    (CHOOSE k \in 1..Len(SECTION_COMMANDS) : SECTION_COMMANDS[k] = command) - 1

\* /\s/.test(c)
IsWhitespace(c) == c \in {SPACE, TAB, NEWLINE, "\r", "\f"}

\* the index of the first newline at or after i, content.length if none: where
\* the inner while loop of stripCommentsPreservingLength stops
RECURSIVE LineEndFrom(_, _)
LineEndFrom(content, i) ==
    IF i < Len(content) /\ At(content, i) # NEWLINE
    THEN LineEndFrom(content, i + 1)
    ELSE i

Spaces(n) == [k \in 1..n |-> SPACE]

\* mutant: only the percent sign is masked, the rest of its line is kept
RECURSIVE MaskMarkerOnlyFrom(_, _)
MaskMarkerOnlyFrom(content, i) ==
    IF i >= Len(content) THEN <<>>
    ELSE IF At(content, i) # PERCENT
         THEN <<At(content, i)>> \o MaskMarkerOnlyFrom(content, i + 1)
    ELSE IF CountBackslashes(content, i - 1) % 2 = 1
         THEN <<At(content, i)>> \o MaskMarkerOnlyFrom(content, i + 1)
    ELSE <<SPACE>> \o MaskMarkerOnlyFrom(content, i + 1)

\* the for loop of stripCommentsPreservingLength, entered at index i: the
\* output appended from there on
RECURSIVE MaskFrom(_, _)
MaskFrom(content, i) ==
    IF i >= Len(content) THEN <<>>
    ELSE IF At(content, i) # PERCENT
         THEN <<At(content, i)>> \o MaskFrom(content, i + 1)
    ELSE IF CountBackslashes(content, i - 1) % 2 = 1
         THEN <<At(content, i)>> \o MaskFrom(content, i + 1)
    ELSE LET e == LineEndFrom(content, i + 1)
         IN  IF e < Len(content)
             THEN Spaces(e - i) \o <<NEWLINE>> \o MaskFrom(content, e + 1)
             ELSE Spaces(e - i)

\* mutant: the copy the headings are searched in keeps its comments
stripCommentsKept(content) == content
stripCommentsPreservingLength(content) == MaskFrom(content, 0)

\* mutant: the scan stops at the first closeChar, the depth is not tracked
RECURSIVE DelimitedFirstCloseFrom(_, _, _, _, _, _)
DelimitedFirstCloseFrom(s, i, openChar, closeChar, depth, value) ==
    IF i >= Len(s) THEN Null
    ELSE IF At(s, i) = closeChar THEN [value |-> value, endIndex |-> i + 1]
    ELSE IF At(s, i) = openChar /\ depth = 0
         THEN DelimitedFirstCloseFrom(s, i + 1, openChar, closeChar, 1, value)
    ELSE DelimitedFirstCloseFrom(s, i + 1, openChar, closeChar, depth,
                                 Append(value, At(s, i)))

\* the for loop of parseDelimitedValue, entered at index i with the depth and
\* the value collected so far
RECURSIVE DelimitedFrom(_, _, _, _, _, _)
DelimitedFrom(s, i, openChar, closeChar, depth, value) ==
    IF i >= Len(s) THEN Null
    ELSE IF At(s, i) = openChar
         THEN DelimitedFrom(s, i + 1, openChar, closeChar, depth + 1,
                            IF depth + 1 > 1 THEN Append(value, At(s, i)) ELSE value)
    ELSE IF At(s, i) = closeChar
         THEN IF depth - 1 = 0
              THEN [value |-> value, endIndex |-> i + 1]
              ELSE DelimitedFrom(s, i + 1, openChar, closeChar, depth - 1,
                                 Append(value, At(s, i)))
    ELSE DelimitedFrom(s, i + 1, openChar, closeChar, depth, Append(value, At(s, i)))

parseDelimitedValue(s, startIndex, openChar, closeChar) ==
    IF startIndex >= Len(s) \/ At(s, startIndex) # openChar THEN Null
    ELSE DelimitedFrom(s, startIndex, openChar, closeChar, 0, <<>>)

\* title.replace(/\s+/g, ' '): every run of whitespace becomes one space
RECURSIVE CollapseWhitespace(_, _)
CollapseWhitespace(s, i) ==
    IF i >= Len(s) THEN <<>>
    ELSE IF IsWhitespace(At(s, i))
         THEN IF i > 0 /\ IsWhitespace(At(s, i - 1))
              THEN CollapseWhitespace(s, i + 1)
              ELSE <<SPACE>> \o CollapseWhitespace(s, i + 1)
    ELSE <<At(s, i)>> \o CollapseWhitespace(s, i + 1)

\* s.trim()
RECURSIVE Trim(_)
Trim(s) ==
    IF Len(s) > 0 /\ IsWhitespace(s[1]) THEN Trim(Tail(s))
    ELSE IF Len(s) > 0 /\ IsWhitespace(s[Len(s)]) THEN Trim(SubSeq(s, 1, Len(s) - 1))
    ELSE s

normalizeHeadingTitle(title) == Trim(CollapseWhitespace(title, 0))

\* the loop of buildLineStartIndices, entered at index i
RECURSIVE LineStartsFrom(_, _)
LineStartsFrom(content, i) ==
    IF i >= Len(content) THEN <<>>
    ELSE IF At(content, i) = NEWLINE
         THEN <<i + 1>> \o LineStartsFrom(content, i + 1)
    ELSE LineStartsFrom(content, i + 1)

buildLineStartIndices(content) == <<0>> \o LineStartsFrom(content, 0)

\* mutant: the comparison of the binary search is strict
RECURSIVE FindLineNumberStrictLoop(_, _, _, _)
FindLineNumberStrictLoop(index, lineStarts, low, high) ==
    IF low <= high
    THEN LET mid == (low + high) \div 2
         IN  IF At(lineStarts, mid) < index
             THEN FindLineNumberStrictLoop(index, lineStarts, mid + 1, high)
             ELSE FindLineNumberStrictLoop(index, lineStarts, low, mid - 1)
    ELSE high + 1

\* the while loop of findLineNumber
RECURSIVE FindLineNumberLoop(_, _, _, _)
FindLineNumberLoop(index, lineStarts, low, high) ==
    IF low <= high
    THEN LET mid == (low + high) \div 2
         IN  IF At(lineStarts, mid) <= index
             THEN FindLineNumberLoop(index, lineStarts, mid + 1, high)
             ELSE FindLineNumberLoop(index, lineStarts, low, mid - 1)
    ELSE high + 1

findLineNumber(index, lineStarts) ==
    FindLineNumberLoop(index, lineStarts, 0, Len(lineStarts) - 1)

\* s has the characters of word at index i
HasWordAt(s, i, word) ==
    /\ i + Len(word) <= Len(s)
    /\ \A k \in 1..Len(word) : At(s, i + k - 1) = word[k]

\* SECTION_PATTERN tried at index p: a backslash, the first alternative of
\* SECTION_COMMANDS that matches there, and a star if one follows
SectionPatternAt(s, p) ==
    IF p < Len(s) /\ At(s, p) = BACKSLASH
          /\ \E k \in 1..Len(SECTION_COMMANDS) : HasWordAt(s, p + 1, SECTION_COMMANDS[k])
    THEN LET k == Min({n \in 1..Len(SECTION_COMMANDS) :
                          HasWordAt(s, p + 1, SECTION_COMMANDS[n])})
             end == p + 1 + Len(SECTION_COMMANDS[k])
         IN  [index |-> p,
              command |-> SECTION_COMMANDS[k],
              lastIndex |-> IF end < Len(s) /\ At(s, end) = "*" THEN end + 1 ELSE end]
    ELSE Null

\* SECTION_PATTERN.exec(s) with the pattern's lastIndex at from: the leftmost
\* match at or after from, null if there is none
RECURSIVE SectionPatternExec(_, _)
SectionPatternExec(s, from) ==
    IF from >= Len(s) THEN Null
    ELSE IF SectionPatternAt(s, from) # Null THEN SectionPatternAt(s, from)
    ELSE SectionPatternExec(s, from + 1)

\* the whitespace-skipping while loops of parseTexOutline
RECURSIVE SkipWhitespace(_, _)
SkipWhitespace(s, index) ==
    IF index < Len(s) /\ IsWhitespace(At(s, index))
    THEN SkipWhitespace(s, index + 1)
    ELSE index

\* the body of the while loop of parseTexOutline for one match: the entry it
\* pushes, null when it ends in a continue. n is rawEntries.length.
\* matchIndex is not a field of the code's entry: it keeps match.index, the
\* offset the entry was found at, for the properties below.
RawEntryOfMatch(sanitized, lineStarts, match, n) ==
    LET index1 == SkipWhitespace(sanitized, match.lastIndex)
        hasShort == index1 < Len(sanitized) /\ At(sanitized, index1) = "["
        parsedShort == parseDelimitedValue(sanitized, index1, "[", "]")
    IN  IF hasShort /\ parsedShort = Null THEN Null
        ELSE
        LET \* shortTitle || '': null and the empty string both give ''
            shortTitleOrEmpty == IF hasShort THEN parsedShort.value ELSE <<>>
            index2 == IF hasShort
                      THEN SkipWhitespace(sanitized, parsedShort.endIndex)
                      ELSE index1
        IN  IF index2 >= Len(sanitized) \/ At(sanitized, index2) # "{" THEN Null
            ELSE
            LET parsedLong == parseDelimitedValue(sanitized, index2, "{", "}")
            IN  IF parsedLong = Null THEN Null
                ELSE
                LET rawTitle == IF parsedLong.value # <<>> THEN parsedLong.value
                                ELSE shortTitleOrEmpty
                    title == normalizeHeadingTitle(rawTitle)
                    lineNumber == findLineNumber(match.index, lineStarts)
                IN  IF title = <<>> THEN Null
                    ELSE [id |-> <<lineNumber, n>>,
                          title |-> title,
                          lineNumber |-> lineNumber,
                          command |-> match.command,
                          level |-> SECTION_LEVEL_MAP(match.command),
                          matchIndex |-> match.index]

\* mutant: a heading that cannot be parsed ends the scan
RECURSIVE ScanHeadingsUntilSkip(_, _, _, _)
ScanHeadingsUntilSkip(sanitized, lineStarts, lastIndex, rawEntries) ==
    LET match == SectionPatternExec(sanitized, lastIndex)
    IN  IF match = Null THEN rawEntries
        ELSE LET entry == RawEntryOfMatch(sanitized, lineStarts, match, Len(rawEntries))
             IN  IF entry = Null THEN rawEntries
                 ELSE ScanHeadingsUntilSkip(sanitized, lineStarts, match.lastIndex,
                                            Append(rawEntries, entry))
\* the while loop of parseTexOutline with the pattern's lastIndex and the
\* entries pushed so far: rawEntries when exec returns null
RECURSIVE ScanHeadings(_, _, _, _)
ScanHeadings(sanitized, lineStarts, lastIndex, rawEntries) ==
    LET match == SectionPatternExec(sanitized, lastIndex)
    IN  IF match = Null THEN rawEntries
        ELSE LET entry == RawEntryOfMatch(sanitized, lineStarts, match, Len(rawEntries))
             IN  ScanHeadings(sanitized, lineStarts, match.lastIndex,
                              IF entry = Null THEN rawEntries
                              ELSE Append(rawEntries, entry))

RawTexOutlineEntries(content) ==
    ScanHeadings(stripCommentsPreservingLength(content),
                 buildLineStartIndices(content), 0, <<>>)

\* mutant: the level of the first heading is taken as the minimum level
FirstLevel(rawEntries) == rawEntries[1].level

\* Math.min(...rawEntries.map((entry) => entry.level))
minimumLevel(rawEntries) ==
    Min({rawEntries[k].level : k \in 1..Len(rawEntries)})

parseTexOutline(content) ==
    LET rawEntries == RawTexOutlineEntries(content)
    IN  [lineCount |-> Len(SplitLines(content)),
         entries |->
            IF Len(rawEntries) = 0 THEN <<>>
            ELSE [k \in 1..Len(rawEntries) |->
                     [id |-> rawEntries[k].id,
                      title |-> rawEntries[k].title,
                      lineNumber |-> rawEntries[k].lineNumber,
                      command |-> rawEntries[k].command,
                      depth |-> rawEntries[k].level - minimumLevel(rawEntries)]]]

-----------------------------------------------------------------------------
(* The archive differ: src/src/App.tsx *)

\* A FileEntry is modelled by its path and by the bytes its zipFile handle
\* decompresses to. A DiffModeEntry is [path, status, oldFile, newFile] with
\* null for an absent file.

\* mutant: only the lengths are compared
fileContentsEqualByLength(oldBytes, newBytes) == Len(oldBytes) = Len(newBytes)

\* the for loop of fileContentsEqual, entered at index i
RECURSIVE BytesEqualFrom(_, _, _)
BytesEqualFrom(oldBytes, newBytes, i) ==
    IF i >= Len(oldBytes) THEN TRUE
    ELSE IF At(oldBytes, i) # At(newBytes, i) THEN FALSE
    ELSE BytesEqualFrom(oldBytes, newBytes, i + 1)

\* fileContentsEqual once both zipFile.async('uint8array') calls have resolved
fileContentsEqual(oldBytes, newBytes) ==
    IF Len(oldBytes) # Len(newBytes) THEN FALSE
    ELSE BytesEqualFrom(oldBytes, newBytes, 0)

\* a.localeCompare(b) < 0 on the paths of the model
PathOrder == <<"a.tex", "b.tex", "c.tex">>

PathRank(path) == CHOOSE k \in 1..Len(PathOrder) : PathOrder[k] = path

LocaleCompare(a, b) == PathRank(a) - PathRank(b)

\* the keys of new Map(files.map((file) => [file.path, file])), in insertion
\* order
RECURSIVE MapKeys(_, _)
MapKeys(files, keys) ==
    IF Len(files) = 0 THEN keys
    ELSE MapKeys(Tail(files),
                 IF \E k \in 1..Len(keys) : keys[k] = files[1].path
                 THEN keys ELSE Append(keys, files[1].path))

\* map.get(path) ?? null: the last file of the list with that path
MapGet(files, path) ==
    IF \E k \in 1..Len(files) : files[k].path = path
    THEN files[Max({k \in 1..Len(files) : files[k].path = path})]
    ELSE Null

\* Array.from(new Set([...oldMap.keys(), ...newMap.keys()]))
UnionPaths(oldFiles, newFiles) ==
    MapKeys(newFiles, MapKeys(oldFiles, <<>>))

\* paths.sort((a, b) => a.localeCompare(b))
RECURSIVE InsertPath(_, _)
InsertPath(sorted, path) ==
    IF Len(sorted) = 0 THEN <<path>>
    ELSE IF LocaleCompare(path, sorted[1]) < 0 THEN <<path>> \o sorted
    ELSE <<sorted[1]>> \o InsertPath(Tail(sorted), path)

RECURSIVE SortPaths(_)
SortPaths(paths) ==
    IF Len(paths) = 0 THEN <<>>
    ELSE InsertPath(SortPaths(SubSeq(paths, 1, Len(paths) - 1)), paths[Len(paths)])

\* the for loop of buildDiffEntries over sortedPaths with the entries pushed
\* so far. unreadable holds the <<side, path>> of the files whose
\* zipFile.async rejects: the await of fileContentsEqual then throws and the
\* promise of buildDiffEntries is rejected.
RECURSIVE DiffEntriesLoop(_, _, _, _, _)
DiffEntriesLoop(sortedPaths, oldFiles, newFiles, unreadable, entries) ==
    IF Len(sortedPaths) = 0 THEN [state |-> "fulfilled", entries |-> entries]
    ELSE
    LET path == sortedPaths[1]
        oldFile == MapGet(oldFiles, path)
        newFile == MapGet(newFiles, path)
        rest == Tail(sortedPaths)
    IN  IF oldFile = Null /\ newFile # Null
        THEN DiffEntriesLoop(rest, oldFiles, newFiles, unreadable,
                 Append(entries, [path |-> path, status |-> "added",
                                  oldFile |-> Null, newFile |-> newFile]))
        ELSE IF oldFile # Null /\ newFile = Null
        THEN DiffEntriesLoop(rest, oldFiles, newFiles, unreadable,
                 Append(entries, [path |-> path, status |-> "removed",
                                  oldFile |-> oldFile, newFile |-> Null]))
        ELSE IF oldFile = Null \/ newFile = Null
        THEN DiffEntriesLoop(rest, oldFiles, newFiles, unreadable, entries)
        ELSE IF <<"old", path>> \in unreadable \/ <<"new", path>> \in unreadable
        THEN [state |-> "rejected", entries |-> <<>>]
        ELSE DiffEntriesLoop(rest, oldFiles, newFiles, unreadable,
                 Append(entries,
                        [path |-> path,
                         status |-> IF fileContentsEqual(oldFile.bytes, newFile.bytes)
                                    THEN "unchanged" ELSE "modified",
                         oldFile |-> oldFile, newFile |-> newFile]))

buildDiffEntries(oldFiles, newFiles, unreadable) ==
    DiffEntriesLoop(SortPaths(UnionPaths(oldFiles, newFiles)),
                    oldFiles, newFiles, unreadable, <<>>)

-----------------------------------------------------------------------------
(* Version-pair selection: src/src/App.tsx *)

\* A value of type number | null | undefined is null, undefined or Num(n).
Undefined == [isUndefined |-> TRUE]

Num(n) == [num |-> n]

\* A value of type string | null | undefined is null, undefined or Str(s).
Str(s) == [str |-> s]

IsNum(v) == v # Null /\ v # Undefined

\* sort((a, b) => a - b)
RECURSIVE InsertNumber(_, _)
InsertNumber(sorted, n) ==
    IF Len(sorted) = 0 THEN <<n>>
    ELSE IF n - sorted[1] < 0 THEN <<n>> \o sorted
    ELSE <<sorted[1]>> \o InsertNumber(Tail(sorted), n)

RECURSIVE SortNumbers(_)
SortNumbers(numbers) ==
    IF Len(numbers) = 0 THEN <<>>
    ELSE InsertNumber(SortNumbers(SubSeq(numbers, 1, Len(numbers) - 1)),
                      numbers[Len(numbers)])

\* availableVersions.includes(n)
Includes(numbers, n) == \E k \in 1..Len(numbers) : numbers[k] = n

\* mutant: one invalid preference makes both sides fall back to the defaults
selectPairJointFallback(versionList, preferredFromVersion, preferredToVersion) ==
    LET availableVersions ==
            SortNumbers([k \in 1..Len(versionList) |-> versionList[k].version])
    IN  IF Len(availableVersions) = 0
        THEN [fromVersion |-> Null, toVersion |-> Null]
        ELSE
        LET latestVersion == availableVersions[Len(availableVersions)]
            previousVersion == IF Len(availableVersions) >= 2
                               THEN availableVersions[Len(availableVersions) - 1]
                               ELSE latestVersion
            bothValid ==
                /\ IsNum(preferredFromVersion)
                /\ Includes(availableVersions, preferredFromVersion.num)
                /\ IsNum(preferredToVersion)
                /\ Includes(availableVersions, preferredToVersion.num)
        IN  [fromVersion |-> IF bothValid THEN preferredFromVersion
                             ELSE Num(previousVersion),
             toVersion |-> IF bothValid THEN preferredToVersion
                           ELSE Num(latestVersion)]

selectPreferredDiffPair(versionList, preferredFromVersion, preferredToVersion) ==
    LET availableVersions ==
            SortNumbers([k \in 1..Len(versionList) |-> versionList[k].version])
    IN  IF Len(availableVersions) = 0
        THEN [fromVersion |-> Null, toVersion |-> Null]
        ELSE
        LET latestVersion == availableVersions[Len(availableVersions)]
            previousVersion == IF Len(availableVersions) >= 2
                               THEN availableVersions[Len(availableVersions) - 1]
                               ELSE latestVersion
            fromIsValid ==
                /\ preferredFromVersion # Null
                /\ preferredFromVersion # Undefined
                /\ Includes(availableVersions, preferredFromVersion.num)
            toIsValid ==
                /\ preferredToVersion # Null
                /\ preferredToVersion # Undefined
                /\ Includes(availableVersions, preferredToVersion.num)
        IN  [fromVersion |-> IF fromIsValid THEN preferredFromVersion
                             ELSE Num(previousVersion),
             toVersion |-> IF toIsValid THEN preferredToVersion
                           ELSE Num(latestVersion)]

-----------------------------------------------------------------------------
(* The link detector of the code viewer (src/src/codemirror/latexLinks.ts) *)

\* \w of a regular expression
WordChars ==
    {"a", "b", "c", "d", "e", "f", "g", "h", "i", "j", "k", "l", "m", "n", "o",
     "p", "q", "r", "s", "t", "u", "v", "w", "x", "y", "z",
     "A", "B", "C", "D", "E", "F", "G", "H", "I", "J", "K", "L", "M", "N", "O",
     "P", "Q", "R", "S", "T", "U", "V", "W", "X", "Y", "Z",
     "0", "1", "2", "3", "4", "5", "6", "7", "8", "9", "_"}

IsWordCharAt(s, i) == i >= 0 /\ i < Len(s) /\ At(s, i) \in WordChars

\* \b at index i: exactly one of the characters before and at i is a \w
WordBoundaryAt(s, i) == IsWordCharAt(s, i - 1) # IsWordCharAt(s, i)

\* mutant: a percent sign after any backslash counts as escaped
RECURSIVE MaskLatexCommentsAnyEscapeFrom(_, _)
MaskLatexCommentsAnyEscapeFrom(s, i) ==
    IF i >= Len(s) THEN <<>>
    ELSE IF At(s, i) # PERCENT
         THEN <<At(s, i)>> \o MaskLatexCommentsAnyEscapeFrom(s, i + 1)
    ELSE IF CountBackslashes(s, i - 1) > 0
         THEN <<At(s, i)>> \o MaskLatexCommentsAnyEscapeFrom(s, i + 1)
    ELSE LET e == LineEndFrom(s, i + 1)
         IN  IF e < Len(s)
             THEN Spaces(e - i) \o <<NEWLINE>> \o MaskLatexCommentsAnyEscapeFrom(s, e + 1)
             ELSE Spaces(e - i)
\* the for loop of maskLatexCommentsPreservingLength, entered at index i: the
\* output appended from there on
RECURSIVE MaskLatexCommentsFrom(_, _)
MaskLatexCommentsFrom(s, i) ==
    IF i >= Len(s) THEN <<>>
    ELSE IF At(s, i) # PERCENT
         THEN <<At(s, i)>> \o MaskLatexCommentsFrom(s, i + 1)
    ELSE IF CountBackslashes(s, i - 1) % 2 = 1
         THEN <<At(s, i)>> \o MaskLatexCommentsFrom(s, i + 1)
    ELSE LET e == LineEndFrom(s, i + 1)
         IN  IF e < Len(s)
             THEN Spaces(e - i) \o <<NEWLINE>> \o MaskLatexCommentsFrom(s, e + 1)
             ELSE Spaces(e - i)

maskLatexCommentsPreservingLength(s) == MaskLatexCommentsFrom(s, 0)

\* the end of the longest run of characters outside stops that begins at i
RECURSIVE RunEnd(_, _, _)
RunEnd(s, i, stops) ==
    IF i < Len(s) /\ At(s, i) \notin stops THEN RunEnd(s, i + 1, stops) ELSE i

\* \s*\{([^{}\n]+)\} tried at index i: the captured group and the index after
\* the closing brace, null when it does not match there
BracedPayloadAt(s, i) ==
    LET open == SkipWhitespace(s, i)
        close == RunEnd(s, open + 1, {"{", "}", NEWLINE})
    IN  IF /\ open < Len(s) /\ At(s, open) = "{"
           /\ close > open + 1
           /\ close < Len(s) /\ At(s, close) = "}"
        THEN [group |-> Slice(s, open + 1, close), end |-> close + 1]
        ELSE Null

\* (?:\s*\[[^\]\n]*\])? tried at index i: the index after the closing bracket
\* when the group matches, i when it does not
OptionalBracketEnd(s, i) ==
    LET open == SkipWhitespace(s, i)
        close == RunEnd(s, open + 1, {"]", NEWLINE})
    IN  IF /\ open < Len(s) /\ At(s, open) = "["
           /\ close < Len(s) /\ At(s, close) = "]"
        THEN close + 1
        ELSE i

\* the command names of the three patterns, the alternatives of REF_PATTERN in
\* the order the pattern tries them
INPUT_COMMAND == <<"i", "n", "p", "u", "t">>

GRAPHICS_COMMAND ==
    <<"i", "n", "c", "l", "u", "d", "e", "g", "r", "a", "p", "h", "i", "c", "s">>

REF_COMMANDS ==
    << <<"C", "r", "e", "f">>,
       <<"c", "r", "e", "f">>,
       <<"e", "q", "r", "e", "f">>,
       <<"p", "a", "g", "e", "r", "e", "f">>,
       <<"a", "u", "t", "o", "r", "e", "f">>,
       <<"r", "e", "f">> >>

\* a backslash, word and \b at index p
CommandAt(s, p, word) ==
    /\ p < Len(s) /\ At(s, p) = BACKSLASH
    /\ HasWordAt(s, p + 1, word)
    /\ WordBoundaryAt(s, p + 1 + Len(word))

\* the match of a pattern at index p, from the part after the command name
MatchOf(p, payload) ==
    IF payload = Null THEN Null
    ELSE [index |-> p, group |-> payload.group, end |-> payload.end]

\* INPUT_PATTERN tried at index p
InputPatternAt(s, p) ==
    IF CommandAt(s, p, INPUT_COMMAND)
    THEN MatchOf(p, BracedPayloadAt(s, p + 1 + Len(INPUT_COMMAND)))
    ELSE Null

\* GRAPHICS_PATTERN tried at index p: with the optional bracket group first,
\* without it when the rest does not match after the group
GraphicsPatternAt(s, p) ==
    IF CommandAt(s, p, GRAPHICS_COMMAND)
    THEN LET after == p + 1 + Len(GRAPHICS_COMMAND)
             withOptions == BracedPayloadAt(s, OptionalBracketEnd(s, after))
         IN  IF withOptions # Null THEN MatchOf(p, withOptions)
             ELSE MatchOf(p, BracedPayloadAt(s, after))
    ELSE Null

\* REF_PATTERN tried at index p: the first alternative the whole pattern
\* matches with
RefPatternAt(s, p) ==
    LET matching == {k \in 1..Len(REF_COMMANDS) :
                        /\ CommandAt(s, p, REF_COMMANDS[k])
                        /\ BracedPayloadAt(s, p + 1 + Len(REF_COMMANDS[k])) # Null}
    IN  IF matching = {} THEN Null
        ELSE MatchOf(p, BracedPayloadAt(s, p + 1 + Len(REF_COMMANDS[Min(matching)])))

\* the pattern collectLatexLinkSpans passes for a kind, tried at index p
LinkPatternAt(s, kind, p) ==
    CASE kind = "input" -> InputPatternAt(s, p)
      [] kind = "graphics" -> GraphicsPatternAt(s, p)
      [] kind = "ref" -> RefPatternAt(s, p)

\* pattern.exec(s) with the pattern's lastIndex at from
RECURSIVE LinkPatternExec(_, _, _)
LinkPatternExec(s, kind, from) ==
    IF from >= Len(s) THEN Null
    ELSE IF LinkPatternAt(s, kind, from) # Null THEN LinkPatternAt(s, kind, from)
    ELSE LinkPatternExec(s, kind, from + 1)

\* the while loop of collectRegexSpans with the pattern's lastIndex at
\* lastIndex: spans after the loop
RECURSIVE CollectSpansLoop(_, _, _, _)
CollectSpansLoop(spans, s, kind, lastIndex) ==
    LET match == LinkPatternExec(s, kind, lastIndex)
    IN  IF match = Null THEN spans
        ELSE IF Trim(match.group) = <<>>
             THEN CollectSpansLoop(spans, s, kind, match.end)
        ELSE CollectSpansLoop(
                 Append(spans, [from |-> match.index, to |-> match.end,
                                kind |-> kind, payload |-> Trim(match.group)]),
                 s, kind, match.end)

collectRegexSpans(spans, s, kind) == CollectSpansLoop(spans, s, kind, 0)

\* the comparator dedupeOverlappingSpans sorts with
CompareSpans(a, b) == IF a.from - b.from # 0 THEN a.from - b.from ELSE b.to - a.to

\* Array.prototype.sort is stable: span goes behind every element that does
\* not compare greater than it
RECURSIVE InsertSpan(_, _)
InsertSpan(sorted, span) ==
    IF Len(sorted) = 0 THEN <<span>>
    ELSE IF CompareSpans(sorted[1], span) <= 0
         THEN <<sorted[1]>> \o InsertSpan(Tail(sorted), span)
    ELSE <<span>> \o sorted

RECURSIVE SortSpans(_)
SortSpans(spans) ==
    IF Len(spans) = 0 THEN <<>>
    ELSE InsertSpan(SortSpans(SubSeq(spans, 1, Len(spans) - 1)), spans[Len(spans)])

\* mutant: no span is discarded
DedupeLoopKeepingAll(spans, lastEnd, filtered) == spans

\* the for loop of dedupeOverlappingSpans over the sorted spans left
RECURSIVE DedupeLoop(_, _, _)
DedupeLoop(spans, lastEnd, filtered) ==
    IF Len(spans) = 0 THEN filtered
    ELSE IF spans[1].from < lastEnd
         THEN DedupeLoop(Tail(spans), lastEnd, filtered)
    ELSE DedupeLoop(Tail(spans), spans[1].to, Append(filtered, spans[1]))

dedupeOverlappingSpans(spans) ==
    IF Len(spans) <= 1 THEN spans
    ELSE DedupeLoop(SortSpans(spans), -1, <<>>)

\* the spans of the three patterns before dedupeOverlappingSpans
CandidateSpans(maskedText) ==
    collectRegexSpans(
        collectRegexSpans(
            collectRegexSpans(<<>>, maskedText, "input"),
            maskedText, "graphics"),
        maskedText, "ref")

collectLatexLinkSpans(s, mode) ==
    IF mode # "tex" \/ s = <<>> THEN <<>>
    ELSE dedupeOverlappingSpans(CandidateSpans(maskLatexCommentsPreservingLength(s)))

-----------------------------------------------------------------------------
(* URL routing: src/src/types.ts *)

DIGITS == <<"0", "1", "2", "3", "4", "5", "6", "7", "8", "9">>

DigitChars == {DIGITS[k] : k \in 1..Len(DIGITS)}

\* `${n}` of a non-negative integer
RECURSIVE NumberToString(_)
NumberToString(n) ==
    IF n < 10 THEN <<DIGITS[n + 1]>>
    ELSE NumberToString(n \div 10) \o <<DIGITS[(n % 10) + 1]>>

DigitValue(c) == (CHOOSE k \in 1..Len(DIGITS) : DIGITS[k] = c) - 1

\* Number(s) of a string of digits
RECURSIVE StringToNumber(_)
StringToNumber(s) ==
    IF Len(s) = 0 THEN 0
    ELSE 10 * StringToNumber(SubSeq(s, 1, Len(s) - 1)) + DigitValue(s[Len(s)])

UPPERCASE ==
    <<"A", "B", "C", "D", "E", "F", "G", "H", "I", "J", "K", "L", "M", "N", "O",
      "P", "Q", "R", "S", "T", "U", "V", "W", "X", "Y", "Z">>

LOWERCASE ==
    <<"a", "b", "c", "d", "e", "f", "g", "h", "i", "j", "k", "l", "m", "n", "o",
      "p", "q", "r", "s", "t", "u", "v", "w", "x", "y", "z">>

\* how the i flag of a pattern compares a character
FoldCase(c) ==
    IF \E k \in 1..Len(UPPERCASE) : UPPERCASE[k] = c
    THEN LOWERCASE[CHOOSE k \in 1..Len(UPPERCASE) : UPPERCASE[k] = c]
    ELSE c

\* s has the characters of word at index i, compared under the i flag
HasWordIgnoringCaseAt(s, i, word) ==
    /\ i + Len(word) <= Len(s)
    /\ \A k \in 1..Len(word) : FoldCase(At(s, i + k - 1)) = FoldCase(word[k])

\* the end of the longest run of characters of class that begins at i
RECURSIVE ClassRunEnd(_, _, _)
ClassRunEnd(s, i, class) ==
    IF i < Len(s) /\ At(s, i) \in class THEN ClassRunEnd(s, i + 1, class) ELSE i

\* \d{n} at index i
DigitsAt(s, i, n) ==
    /\ i + n <= Len(s)
    /\ \A k \in 0..(n - 1) : At(s, i + k) \in DigitChars

\* (?:v\d+)? at index e: every index the group can end at
VersionSuffixEnds(s, e) ==
    {e} \cup (IF e < Len(s) /\ FoldCase(At(s, e)) = "v"
              THEN (e + 2)..ClassRunEnd(s, e + 1, DigitChars)
              ELSE {})

\* \d{4}\.\d{4,5}(?:v\d+)? at index p: every index the match can end at
NewFormatEnds(s, p) ==
    UNION {VersionSuffixEnds(s, p + 5 + n) :
              n \in {n \in {4, 5} : /\ DigitsAt(s, p, 4)
                                    /\ p + 4 < Len(s) /\ At(s, p + 4) = "."
                                    /\ DigitsAt(s, p + 5, n)}}

\* \w+-\w+\/\d{7}(?:v\d+)? at index p: every index the match can end at
OldFormatEnds(s, p) ==
    LET dash == ClassRunEnd(s, p, WordChars)
        slash == ClassRunEnd(s, dash + 1, WordChars)
    IN  IF /\ dash > p /\ dash < Len(s) /\ At(s, dash) = "-"
           /\ slash > dash + 1 /\ slash < Len(s) /\ At(s, slash) = "/"
           /\ DigitsAt(s, slash + 1, 7)
        THEN VersionSuffixEnds(s, slash + 8)
        ELSE {}

\* the capturing group of the two patterns of extractArxivId at index p
ArxivIdEnds(s, p) == NewFormatEnds(s, p) \cup OldFormatEnds(s, p)

ARXIV_HOST == <<"a", "r", "x", "i", "v", ".", "o", "r", "g">>

ARXIV_HOST_PREFIX == <<"a", "r", "x", "i", "v", ".", "o", "r", "g", "/">>

\* abs/ pdf/ src/ html/
URL_SEGMENTS ==
    << <<"a", "b", "s", "/">>,
       <<"p", "d", "f", "/">>,
       <<"s", "r", "c", "/">>,
       <<"h", "t", "m", "l", "/">> >>

\* the indices the non-capturing prefix of the URL pattern can end at when
\* tried at index q, in the order the pattern tries them
UrlPrefixEnds(s, q) ==
    LET host == q + Len(ARXIV_HOST_PREFIX)
        hostSegments == IF HasWordIgnoringCaseAt(s, q, ARXIV_HOST_PREFIX)
                        THEN SelectSeq([k \in 1..Len(URL_SEGMENTS) |->
                                           IF HasWordIgnoringCaseAt(s, host, URL_SEGMENTS[k])
                                           THEN host + Len(URL_SEGMENTS[k]) ELSE -1],
                                       LAMBDA e : e >= 0)
                             \o <<host>>
                        ELSE <<>>
        bareSegments == SelectSeq([k \in 1..Len(URL_SEGMENTS) |->
                                      IF HasWordIgnoringCaseAt(s, q, <<"/">> \o URL_SEGMENTS[k])
                                      THEN q + 1 + Len(URL_SEGMENTS[k]) ELSE -1],
                                  LAMBDA e : e >= 0)
    IN  hostSegments \o bareSegments

\* the URL pattern tried at index q: the captured id, null when it does not
\* match there
UrlPatternAt(s, q) ==
    LET starts == SelectSeq(UrlPrefixEnds(s, q), LAMBDA p : ArxivIdEnds(s, p) # {})
    IN  IF Len(starts) = 0 THEN Null
        ELSE Str(Slice(s, starts[1], Max(ArxivIdEnds(s, starts[1]))))

\* input.match of the URL pattern: the group of the leftmost match
RECURSIVE UrlPatternSearch(_, _)
UrlPatternSearch(s, q) ==
    IF q >= Len(s) THEN Null
    ELSE IF UrlPatternAt(s, q) # Null THEN UrlPatternAt(s, q)
    ELSE UrlPatternSearch(s, q + 1)

\* input.includes(word)
IncludesWord(s, word) == \E i \in 0..Len(s) : HasWordAt(s, i, word)

extractArxivId(input) ==
    IF IncludesWord(input, ARXIV_HOST) THEN UrlPatternSearch(input, 0)
    ELSE IF Len(input) \in ArxivIdEnds(input, 0) THEN Str(input)
    ELSE Null

BASE_URL == <<"/">>

\* BASE_URL === '/' ? '' : BASE_URL.replace(/\/$/, '')
BasePath ==
    IF BASE_URL = <<"/">> THEN <<>>
    ELSE IF BASE_URL[Len(BASE_URL)] = "/" THEN SubSeq(BASE_URL, 1, Len(BASE_URL) - 1)
    ELSE BASE_URL

\* !filePath: the argument is undefined or the empty string
NoFilePath(filePath) == filePath = Undefined \/ filePath = Str(<<>>)

ABS_PREFIX == <<"/", "a", "b", "s", "/">>

DIFF_PREFIX == <<"/", "d", "i", "f", "f", "/">>

buildBrowseURL(arxivId, filePath) ==
    IF NoFilePath(filePath) THEN BasePath \o ABS_PREFIX \o arxivId
    ELSE BasePath \o ABS_PREFIX \o arxivId \o <<"/">> \o filePath.str

buildDiffURL(arxivId, fromVersion, toVersion, filePath) ==
    LET versionPath == <<"v">> \o NumberToString(fromVersion) \o <<".", ".", "v">>
                           \o NumberToString(toVersion)
    IN  IF NoFilePath(filePath) THEN BasePath \o DIFF_PREFIX \o arxivId \o <<"/">> \o versionPath
        ELSE BasePath \o DIFF_PREFIX \o arxivId \o <<"/">> \o versionPath
                 \o <<"/">> \o filePath.str

\* the characters . of a pattern does not match
LineTerminators == {NEWLINE, "\r"}

\* (?:\/(.*))?$ at index e: the group, undefined when the optional part is
\* not there, null when the pattern does not match
OptionalPathAt(s, e) ==
    IF e = Len(s) THEN Undefined
    ELSE IF At(s, e) = "/" /\ RunEnd(s, e + 1, LineTerminators) = Len(s)
         THEN Str(Slice(s, e + 1, Len(s)))
    ELSE Null

\* match[n] || null
GroupOrNull(group) == IF group = Undefined \/ group = Str(<<>>) THEN Null ELSE group

\* cleanPath.match of the diff pattern: the state parseURL returns for it,
\* null when it does not match
DiffMatch(cleanPath) ==
    LET idEnd == RunEnd(cleanPath, Len(DIFF_PREFIX), {"/"})
        fromEnd == ClassRunEnd(cleanPath, idEnd + 2, DigitChars)
        toEnd == ClassRunEnd(cleanPath, fromEnd + 3, DigitChars)
    IN  IF /\ HasWordAt(cleanPath, 0, DIFF_PREFIX)
           /\ idEnd > Len(DIFF_PREFIX)
           /\ HasWordAt(cleanPath, idEnd, <<"/", "v">>)
           /\ fromEnd > idEnd + 2
           /\ HasWordAt(cleanPath, fromEnd, <<".", ".", "v">>)
           /\ toEnd > fromEnd + 3
           /\ OptionalPathAt(cleanPath, toEnd) # Null
        THEN [mode |-> "diff",
              arxivId |-> Str(Slice(cleanPath, Len(DIFF_PREFIX), idEnd)),
              fromVersion |-> Num(StringToNumber(Slice(cleanPath, idEnd + 2, fromEnd))),
              toVersion |-> Num(StringToNumber(Slice(cleanPath, fromEnd + 3, toEnd))),
              filePath |-> GroupOrNull(OptionalPathAt(cleanPath, toEnd))]
        ELSE Null

\* cleanPath.match of the browse pattern
BrowseMatch(cleanPath) ==
    LET idEnd == RunEnd(cleanPath, Len(ABS_PREFIX), {"/"})
    IN  IF /\ HasWordAt(cleanPath, 0, ABS_PREFIX)
           /\ idEnd > Len(ABS_PREFIX)
           /\ OptionalPathAt(cleanPath, idEnd) # Null
        THEN [mode |-> "browse",
              arxivId |-> Str(Slice(cleanPath, Len(ABS_PREFIX), idEnd)),
              filePath |-> GroupOrNull(OptionalPathAt(cleanPath, idEnd))]
        ELSE Null

\* the pathname without the base prefix
CleanPath(pathname) ==
    IF BASE_URL # <<"/">> /\ HasWordAt(pathname, 0, BasePath)
    THEN Slice(pathname, Len(BasePath), Len(pathname))
    ELSE pathname

parseURL(pathname) ==
    IF DiffMatch(CleanPath(pathname)) # Null THEN DiffMatch(CleanPath(pathname))
    ELSE IF BrowseMatch(CleanPath(pathname)) # Null THEN BrowseMatch(CleanPath(pathname))
    ELSE [mode |-> "browse", arxivId |-> Null, filePath |-> Null]

-----------------------------------------------------------------------------
(* Main-file detection: src/src/App.tsx *)

\* name.toLowerCase()
ToLowerCase(s) == [k \in 1..Len(s) |-> FoldCase(s[k])]

\* s.endsWith(suffix)
EndsWith(s, suffix) ==
    Len(s) >= Len(suffix) /\ SubSeq(s, Len(s) - Len(suffix) + 1, Len(s)) = suffix

TEX_SUFFIX == <<".", "t", "e", "x">>

BEGIN_DOCUMENT == <<BACKSLASH, "b", "e", "g", "i", "n", "{", "d", "o", "c", "u", "m", "e", "n", "t", "}">>

\* A FileEntry is [path, content, zipText, readable]: name equals path
\* (parseZipBlob), content is the cache (null or Str(text)), zipText is the
\* text zipFile.async resolves with and readable tells whether it resolves.
IsTexFile(file) == EndsWith(ToLowerCase(file.path), TEX_SUFFIX)

\* mutant: when no file qualifies the first .tex file is returned
RECURSIVE MainTexLoopFirstFallback(_, _)
MainTexLoopFirstFallback(texFiles, k) ==
    IF k > Len(texFiles) THEN texFiles[1]
    ELSE IF texFiles[k].readable /\ IncludesWord(texFiles[k].zipText, BEGIN_DOCUMENT)
         THEN texFiles[k]
    ELSE MainTexLoopFirstFallback(texFiles, k + 1)

\* the for loop of findMainTexFile from the k-th .tex file on: a file that
\* cannot be read is logged and passed over
RECURSIVE MainTexLoop(_, _)
MainTexLoop(texFiles, k) ==
    IF k > Len(texFiles) THEN Null
    ELSE IF texFiles[k].readable /\ IncludesWord(texFiles[k].zipText, BEGIN_DOCUMENT)
         THEN texFiles[k]
    ELSE MainTexLoop(texFiles, k + 1)

findMainTexFile(files) ==
    LET texFiles == SelectSeq(files, IsTexFile)
    IN  IF Len(texFiles) = 0 THEN Null
        ELSE IF Len(texFiles) = 1 THEN texFiles[1]
        ELSE MainTexLoop(texFiles, 1)

\* entry.newFile ?? entry.oldFile
SourceFile(entry) == IF entry.newFile # Null THEN entry.newFile ELSE entry.oldFile

\* sourceFile.content ?? await sourceFile.zipFile.async('text'): the text, null
\* when the cache is empty and the decompression fails
ContentOrRead(file) ==
    IF file.content # Null THEN file.content
    ELSE IF file.readable THEN Str(file.zipText)
    ELSE Null

\* the for loop of findMainTexDiffPath from the k-th candidate on: the path
\* returned and the paths of the entries whose source file had its content
\* assigned
RECURSIVE MainTexDiffLoop(_, _, _)
MainTexDiffLoop(texCandidates, k, read) ==
    IF k > Len(texCandidates) THEN [path |-> Str(texCandidates[1].path), read |-> read]
    ELSE LET sourceFile == SourceFile(texCandidates[k])
         IN  IF sourceFile = Null \/ ContentOrRead(sourceFile) = Null
             THEN MainTexDiffLoop(texCandidates, k + 1, read)
             ELSE IF IncludesWord(ContentOrRead(sourceFile).str, BEGIN_DOCUMENT)
                  THEN [path |-> Str(texCandidates[k].path),
                        read |-> read \cup {texCandidates[k].path}]
             ELSE MainTexDiffLoop(texCandidates, k + 1, read \cup {texCandidates[k].path})

IsTexEntry(entry) == EndsWith(ToLowerCase(entry.path), TEX_SUFFIX)

findMainTexDiffPath(entries) ==
    LET texCandidates == SelectSeq(entries, IsTexEntry)
    IN  IF Len(texCandidates) = 0 THEN [path |-> Null, read |-> {}]
        ELSE IF Len(texCandidates) = 1
             THEN [path |-> Str(texCandidates[1].path), read |-> {}]
        ELSE MainTexDiffLoop(texCandidates, 1, {})

\* sourceFile.content = content on the source file of every entry that
\* findMainTexDiffPath read
WithContentRead(entries, read) ==
    [k \in 1..Len(entries) |->
        IF entries[k].path \notin read THEN entries[k]
        ELSE IF entries[k].newFile # Null
             THEN [entries[k] EXCEPT !.newFile.content = ContentOrRead(entries[k].newFile)]
        ELSE [entries[k] EXCEPT !.oldFile.content = ContentOrRead(entries[k].oldFile)]]

\* entries.find((entry) => entry.status !== 'unchanged')?.path
RECURSIVE FirstChangedPath(_)
FirstChangedPath(entries) ==
    IF Len(entries) = 0 THEN Undefined
    ELSE IF entries[1].status # "unchanged" THEN Str(entries[1].path)
    ELSE FirstChangedPath(Tail(entries))

\* a || b for strings: b when a is null, undefined or empty
OrElse(a, b) == IF a = Null \/ a = Undefined \/ a = Str(<<>>) THEN b ELSE a

\* entries.some((entry) => entry.path === preferredFilePath), false without
\* a preferredFilePath
HasPreferredPath(entries, preferredFilePath) ==
    /\ preferredFilePath # Null /\ preferredFilePath # Undefined
    /\ preferredFilePath # Str(<<>>)
    /\ \E k \in 1..Len(entries) : entries[k].path = preferredFilePath.str

\* nextSelectedPath of loadDiffPair
NextSelectedPath(entries, preferredFilePath) ==
    IF HasPreferredPath(entries, preferredFilePath) THEN preferredFilePath
    ELSE OrElse(findMainTexDiffPath(entries).path,
                OrElse(FirstChangedPath(entries),
                       OrElse(IF Len(entries) > 0 THEN Str(entries[1].path) ELSE Undefined,
                              Null)))

-----------------------------------------------------------------------------
(* Inputs and actions of the comment transformer *)

CommentChars == {PERCENT, BACKSLASH, SPACE, TAB, "a", NEWLINE}

\* "100\% done % note"
EscapeExampleText ==
    <<"1", "0", "0", BACKSLASH, PERCENT, SPACE, "d", "o", "n", "e", SPACE,
      PERCENT, SPACE, "n", "o", "t", "e">>

\* "100\% done"
EscapeExampleStripped ==
    <<"1", "0", "0", BACKSLASH, PERCENT, SPACE, "d", "o", "n", "e">>

\* five lines, the second and the fourth being pure comments:
\* "a", "% c", "b\% %x", "%", "d"
FiveLineExampleText ==
    <<"a", NEWLINE, PERCENT, SPACE, "c", NEWLINE, "b", BACKSLASH, PERCENT,
      SPACE, PERCENT, "x", NEWLINE, PERCENT, NEWLINE, "d">>

CommentTexts ==
    StringsUpTo(CommentChars, MaxTextLen) \cup {EscapeExampleText, FiveLineExampleText}

\* a call stripLatexComments(text)
StripLatexComments ==
    /\ commentPc = "input"
    /\ lineTransforms' = [k \in 1..Len(SplitLines(text)) |-> transformLine(SplitLines(text)[k])]
    /\ strippedText' = stripLatexComments(text)
    /\ commentPc' = "stripped"
    /\ UNCHANGED <<text, restrippedText, mapping>>
    /\ UNCHANGED <<outlineVars, differVars, pairVars, linkVars, routeVars, mainVars, selectVars, appVars, effectVars, maskVars, hideVars, contentVars, urlVars, cacheVars>>

\* a second call, on the result of the first
RestripLatexComments ==
    /\ commentPc = "stripped"
    /\ restrippedText' = stripLatexComments(strippedText)
    /\ commentPc' = "restripped"
    /\ UNCHANGED <<text, lineTransforms, strippedText, mapping>>
    /\ UNCHANGED <<outlineVars, differVars, pairVars, linkVars, routeVars, mainVars, selectVars, appVars, effectVars, maskVars, hideVars, contentVars, urlVars, cacheVars>>

\* a call buildVisibleLineMapAfterCommentStrip(text)
BuildVisibleLineMap ==
    /\ commentPc = "restripped"
    /\ mapping' = buildVisibleLineMapAfterCommentStrip(text)
    /\ commentPc' = "mapped"
    /\ UNCHANGED <<text, lineTransforms, strippedText, restrippedText>>
    /\ UNCHANGED <<outlineVars, differVars, pairVars, linkVars, routeVars, mainVars, selectVars, appVars, effectVars, maskVars, hideVars, contentVars, urlVars, cacheVars>>

CommentNext == StripLatexComments \/ RestripLatexComments \/ BuildVisibleLineMap

-----------------------------------------------------------------------------
(* Inputs and actions of the outline extractor *)

RECURSIVE ConcatAll(_)
ConcatAll(parts) ==
    IF Len(parts) = 0 THEN <<>> ELSE parts[1] \o ConcatAll(Tail(parts))

BackslashWord(word) == <<BACKSLASH>> \o word

\* the pieces the contents are put together from
OutlineFragments ==
    { BackslashWord(SECTION_COMMANDS[3]) \o <<"{", "A", "}">>,       \* \section{A}
      BackslashWord(SECTION_COMMANDS[4]) \o <<"{", "B", "}">>,       \* \subsection{B}
      BackslashWord(SECTION_COMMANDS[1]) \o <<"*", "{", "C", "}">>,  \* \part*{C}
      BackslashWord(SECTION_COMMANDS[6]) \o <<"{", "P", "}">>,       \* \paragraph{P}
      BackslashWord(SECTION_COMMANDS[3]),                            \* \section
      <<"{", "A">>,
      <<"{", "B", "}">>,
      <<"}">>,
      <<"{", "}">>,
      <<"[", "S", "]">>,
      <<"[">>,
      <<PERCENT>>,
      <<BACKSLASH>>,
      <<NEWLINE>>,
      <<SPACE>> }

\* \section{Intro}, \subsection{Background}, \section{Methods} on three lines
NestingExampleContent ==
    BackslashWord(SECTION_COMMANDS[3]) \o <<"{", "I", "n", "t", "r", "o", "}", NEWLINE>>
    \o BackslashWord(SECTION_COMMANDS[4])
    \o <<"{", "B", "a", "c", "k", "g", "r", "o", "u", "n", "d", "}", NEWLINE>>
    \o BackslashWord(SECTION_COMMANDS[3])
    \o <<"{", "M", "e", "t", "h", "o", "d", "s", "}">>

\* \section{A \textbf{bold} word}
BraceExampleContent ==
    BackslashWord(SECTION_COMMANDS[3])
    \o <<"{", "A", SPACE, BACKSLASH, "t", "e", "x", "t", "b", "f", "{", "b", "o",
         "l", "d", "}", SPACE, "w", "o", "r", "d", "}">>

\* A \textbf{bold} word
BraceExampleTitle ==
    <<"A", SPACE, BACKSLASH, "t", "e", "x", "t", "b", "f", "{", "b", "o", "l", "d",
      "}", SPACE, "w", "o", "r", "d">>

\* four lines: "% \section{X}", "\section{A} % c", "" and "\subsection{B}"
CommentExampleContent ==
    <<PERCENT, SPACE>> \o BackslashWord(SECTION_COMMANDS[3]) \o <<"{", "X", "}", NEWLINE>>
    \o BackslashWord(SECTION_COMMANDS[3])
    \o <<"{", "A", "}", SPACE, PERCENT, SPACE, "c", NEWLINE, NEWLINE>>
    \o BackslashWord(SECTION_COMMANDS[4]) \o <<"{", "B", "}">>

OutlineContents ==
    {ConcatAll(parts) : parts \in StringsUpTo(OutlineFragments, MaxFragments)}
        \cup {NestingExampleContent, BraceExampleContent, CommentExampleContent}

\* a call parseTexOutline(textContent)
ParseTexOutline ==
    /\ outlinePc = "input"
    /\ outline' = parseTexOutline(textContent)
    /\ matchIndices' = [k \in 1..Len(RawTexOutlineEntries(textContent)) |->
                           RawTexOutlineEntries(textContent)[k].matchIndex]
    /\ outlinePc' = "parsed"
    /\ UNCHANGED textContent
    /\ UNCHANGED <<commentVars, differVars, pairVars, linkVars, routeVars, mainVars, selectVars, appVars, effectVars, maskVars, hideVars, contentVars, urlVars, cacheVars>>

OutlineNext == ParseTexOutline

\* lines 692-700 of the outline effect: with comments hidden every entry
\* gets the line number lineMap holds for its line, and the entries left
\* without a visible line are dropped
HideCommentsOutline(entries, visibleLines) ==
    SelectSeq([k \in 1..Len(entries) |->
                  [entries[k] EXCEPT !.lineNumber = visibleLines[@]]],
              LAMBDA entry : entry.lineNumber > 0)

\* the outline effect maps the entries it has parsed (hideCommentsInViewer)
MapOutlineLines ==
    /\ outlinePc = "parsed"
    /\ visibleLineMap' = buildVisibleLineMapAfterCommentStrip(textContent)
    /\ hiddenOutline' = HideCommentsOutline(outline.entries,
                                            buildVisibleLineMapAfterCommentStrip(textContent))
    /\ outlinePc' = "mapped"
    /\ UNCHANGED <<textContent, outline, matchIndices>>
    /\ UNCHANGED <<commentVars, differVars, pairVars, linkVars, routeVars, mainVars, selectVars, appVars, effectVars, maskVars, contentVars, urlVars, cacheVars>>

OutlineMapNext == ParseTexOutline \/ MapOutlineLines

-----------------------------------------------------------------------------
(* Inputs and actions of the archive differ *)

Paths == {PathOrder[k] : k \in 1..Len(PathOrder)}

\* the byte contents of the files: they differ in length only, in the last
\* byte only, or not at all
FileBytes == {<<0>>, <<0, 0>>, <<0, 1>>}

FileEntries == [path : Paths, bytes : FileBytes]

\* the file lists of an archive: JSZip enumerates every path once
FileLists ==
    {files \in StringsUpTo(FileEntries, MaxFiles) :
        \A j, k \in 1..Len(files) : j # k => files[j].path # files[k].path}

PathsOf(files) == {files[k].path : k \in 1..Len(files)}

\* a call buildDiffEntries(oldEntries, newEntries), run until its promise
\* settles; at most one file of the two archives fails to decompress
BuildDiffEntries ==
    /\ differPc = "input"
    /\ \E unreadable \in {{}} \cup {{<<"old", p>>} : p \in PathsOf(oldEntries)}
                             \cup {{<<"new", p>>} : p \in PathsOf(newEntries)} :
          /\ unreadableFiles' = unreadable
          /\ diffResult' = buildDiffEntries(oldEntries, newEntries, unreadable)
    /\ differPc' = "settled"
    /\ UNCHANGED <<oldEntries, newEntries>>
    /\ UNCHANGED <<commentVars, outlineVars, pairVars, linkVars, routeVars, mainVars, selectVars, appVars, effectVars, maskVars, hideVars, contentVars, urlVars, cacheVars>>

DifferNext == BuildDiffEntries

-----------------------------------------------------------------------------
(* Inputs and actions of the version-pair selection *)

VersionNumbers == 1..MaxVersion

\* the version lists of a paper: every version once, in any order
VersionLists ==
    {[k \in 1..Len(numbers) |-> [version |-> numbers[k]]] :
        numbers \in {q \in StringsUpTo(VersionNumbers, MaxVersion) :
                        \A j, k \in 1..Len(q) : j # k => q[j] # q[k]}}

PreferredVersions ==
    {Null, Undefined} \cup {Num(n) : n \in VersionNumbers \cup {InvalidVersion}}

\* a call selectPreferredDiffPair(versions, preferredFrom, preferredTo)
SelectPreferredDiffPair ==
    /\ pairPc = "input"
    /\ selectedPair' = selectPreferredDiffPair(versions, preferredFrom, preferredTo)
    /\ pairPc' = "selected"
    /\ UNCHANGED <<versions, preferredFrom, preferredTo>>
    /\ UNCHANGED <<commentVars, outlineVars, differVars, linkVars, routeVars, mainVars, selectVars, appVars, effectVars, maskVars, hideVars, contentVars, urlVars, cacheVars>>

PairNext == SelectPreferredDiffPair

-----------------------------------------------------------------------------
(* Inputs and actions of the link detector *)

\* \ref{a}
RefA == BackslashWord(REF_COMMANDS[6]) \o <<"{", "a", "}">>

\* \ref{b}
RefB == BackslashWord(REF_COMMANDS[6]) \o <<"{", "b", "}">>

\* the pieces the texts are put together from
LinkFragments ==
    {RefA,
     RefB,
     BackslashWord(REF_COMMANDS[2]) \o <<SPACE, "{", SPACE, "c", "}">>,
     BackslashWord(REF_COMMANDS[6]) \o <<"{", SPACE, "}">>,
     BackslashWord(INPUT_COMMAND) \o <<"{", "f", "}">>,
     BackslashWord(GRAPHICS_COMMAND) \o <<"[">>,
     BackslashWord(GRAPHICS_COMMAND),
     <<"]", "{", "g", "}">>,
     <<"{", "h", "}">>,
     <<"s">>,
     <<PERCENT>>,
     <<NEWLINE>>}

\* the text of the example: \ref{a}\ref{b}
AdjacentRefsText == RefA \o RefB

\* a reference inside the options of a graphic: \ref{a}\includegraphics[\ref{b}]{g}
OptionsExampleText ==
    RefA \o BackslashWord(GRAPHICS_COMMAND) \o <<"[">> \o RefB \o <<"]", "{", "g", "}">>

LinkTexts ==
    {ConcatAll(parts) : parts \in StringsUpTo(LinkFragments, MaxFragments)}
        \cup {OptionsExampleText}

CodeViewerModes == {"tex", "bib", "plain"}

\* a call collectLatexLinkSpans(linkText, linkMode)
CollectLatexLinkSpans ==
    /\ linkPc = "input"
    /\ linkSpans' = collectLatexLinkSpans(linkText, linkMode)
    /\ linkPc' = "collected"
    /\ UNCHANGED <<linkText, linkMode>>
    /\ UNCHANGED <<commentVars, outlineVars, differVars, pairVars, routeVars, mainVars, selectVars, appVars, effectVars, maskVars, hideVars, contentVars, urlVars, cacheVars>>

LinkNext == CollectLatexLinkSpans

-----------------------------------------------------------------------------
(* Inputs and actions of the URL routing *)

\* the texts handed to extractArxivId: ids of the new and of the old format,
\* with and without a version, URLs, and texts it rejects
RouteInputs ==
    { <<"1", "7", "0", "6", ".", "0", "3", "7", "6", "2">>,
      <<"1", "7", "0", "6", ".", "0", "3", "7", "6", "2", "v", "2">>,
      <<"2", "3", "0", "1", ".", "1", "2", "3", "4">>,
      <<"1", "7", "0", "6", ".", "0", "3", "7", "6", "2", "V", "1", "2">>,
      <<"m", "a", "t", "h", "-", "p", "h", "/", "0", "5", "0", "1", "0", "2", "3">>,
      <<"m", "a", "t", "h", "-", "p", "h", "/", "0", "5", "0", "1", "0", "2", "3", "v", "1">>,
      <<"h", "e", "p", "_", "t", "h", "-", "x", "/", "9", "9", "0", "1", "0", "0", "1">>,
      <<"h", "t", "t", "p", "s", ":", "/", "/", "a", "r", "x", "i", "v", ".", "o", "r", "g", "/", "a", "b", "s", "/", "1", "7", "0", "6", ".", "0", "3", "7", "6", "2", "v", "3">>,
      <<"a", "r", "x", "i", "v", ".", "o", "r", "g", "/", "p", "d", "f", "/", "m", "a", "t", "h", "-", "p", "h", "/", "0", "5", "0", "1", "0", "2", "3">>,
      <<"h", "t", "t", "p", ":", "/", "/", "a", "r", "x", "i", "v", ".", "o", "r", "g", "/", "1", "7", "0", "6", ".", "0", "3", "7", "6", "2">>,
      <<"a", "r", "x", "i", "v", ".", "o", "r", "g", "/", "a", "b", "s">>,
      <<"1", "7", ".", "0", "3">>,
      <<"m", "a", "t", "h", "-", "p", "h", "/", "0", "5", "0", "1", "0">>,
      <<"x", "/", "a", "b", "s", "/", "1", "7", "0", "6", ".", "0", "3", "7", "6", "2">>,
      <<>> }

\* the versions of a diff URL
RouteVersions == (1..MaxVersion) \cup {10 * MaxVersion + 2}

\* the optional file path: absent, empty, a file, a file in a directory
RouteFilePaths ==
    { Undefined,
      Str(<<>>),
      Str(<<"m", "s", ".", "t", "e", "x">>),
      Str(<<"f", "i", "g", "/", "a", ".", "p", "n", "g">>) }

\* a call extractArxivId(routeInput)
ExtractArxivId ==
    /\ routePc = "input"
    /\ routeArxivId' = extractArxivId(routeInput)
    /\ routePc' = IF extractArxivId(routeInput) = Null THEN "rejected" ELSE "extracted"
    /\ UNCHANGED <<routeInput, routeMode, routeFromVersion, routeToVersion,
                   routeFilePath, routeUrl, routeState>>
    /\ UNCHANGED <<commentVars, outlineVars, differVars, pairVars, linkVars, mainVars, selectVars, appVars, effectVars, maskVars, hideVars, contentVars, urlVars, cacheVars>>

\* a call buildBrowseURL(routeArxivId, filePath)
BuildBrowseURL ==
    /\ routePc = "extracted"
    /\ \E filePath \in RouteFilePaths :
          /\ routeFilePath' = filePath
          /\ routeUrl' = buildBrowseURL(routeArxivId.str, filePath)
    /\ routeMode' = "browse"
    /\ routePc' = "built"
    /\ UNCHANGED <<routeInput, routeArxivId, routeFromVersion, routeToVersion, routeState>>
    /\ UNCHANGED <<commentVars, outlineVars, differVars, pairVars, linkVars, mainVars, selectVars, appVars, effectVars, maskVars, hideVars, contentVars, urlVars, cacheVars>>

\* a call buildDiffURL(routeArxivId, fromVersion, toVersion, filePath)
BuildDiffURL ==
    /\ routePc = "extracted"
    /\ \E fromVersion \in RouteVersions, toVersion \in RouteVersions,
          filePath \in RouteFilePaths :
          /\ routeFromVersion' = fromVersion
          /\ routeToVersion' = toVersion
          /\ routeFilePath' = filePath
          /\ routeUrl' = buildDiffURL(routeArxivId.str, fromVersion, toVersion, filePath)
    /\ routeMode' = "diff"
    /\ routePc' = "built"
    /\ UNCHANGED <<routeInput, routeArxivId, routeState>>
    /\ UNCHANGED <<commentVars, outlineVars, differVars, pairVars, linkVars, mainVars, selectVars, appVars, effectVars, maskVars, hideVars, contentVars, urlVars, cacheVars>>

\* a call parseURL(routeUrl)
ParseURL ==
    /\ routePc = "built"
    /\ routeState' = parseURL(routeUrl)
    /\ routePc' = "parsed"
    /\ UNCHANGED <<routeInput, routeArxivId, routeMode, routeFromVersion,
                   routeToVersion, routeFilePath, routeUrl>>
    /\ UNCHANGED <<commentVars, outlineVars, differVars, pairVars, linkVars, mainVars, selectVars, appVars, effectVars, maskVars, hideVars, contentVars, urlVars, cacheVars>>

RouteNext == ExtractArxivId \/ BuildBrowseURL \/ BuildDiffURL \/ ParseURL

-----------------------------------------------------------------------------
(* Inputs and actions of the main-file detection *)

\* the paths of the archives, in the order of localeCompare
ArchivePaths ==
    << <<"a", ".", "t", "e", "x">>,
       <<"B", ".", "T", "E", "X">>,
       <<"c", ".", "t", "x", "t">>,
       <<"d", ".", "t", "e", "x">> >>

\* a text with \begin{document} and one without it
DocumentText == <<PERCENT, NEWLINE>> \o BEGIN_DOCUMENT \o <<NEWLINE>>

PreambleText == SubSeq(BEGIN_DOCUMENT, 1, Len(BEGIN_DOCUMENT) - 1)

\* what the archive holds for a file: a text with or without
\* \begin{document}, or a stream that cannot be decompressed
ZipKinds == {"document", "preamble", "unreadable"}

\* the FileEntry parseZipBlob makes of a path: its content is null
NewFileEntry(path, kind) ==
    [path |-> path,
     content |-> Null,
     zipText |-> CASE kind = "document" -> DocumentText
                   [] kind = "preamble" -> PreambleText
                   [] kind = "unreadable" -> <<>>,
     readable |-> kind # "unreadable"]

\* the archives: at most MaxArchiveFiles entries with distinct paths, in any
\* order
ArchiveFileLists ==
    {[k \in 1..Len(order) |-> NewFileEntry(ArchivePaths[order[k]], kinds[k])] :
        <<order, kinds>> \in
            UNION {{<<o, ks>> \in [1..n -> 1..Len(ArchivePaths)] \X [1..n -> ZipKinds] :
                       \A i, j \in 1..n : i # j => o[i] # o[j]} :
                   n \in 0..MaxArchiveFiles}}

\* a call findMainTexFile(archiveFiles)
FindMainTexFile ==
    /\ mainPc = "input"
    /\ mainTexFile' = findMainTexFile(archiveFiles)
    /\ mainPc' = "found"
    /\ UNCHANGED archiveFiles
    /\ UNCHANGED <<commentVars, outlineVars, differVars, pairVars, linkVars, routeVars, selectVars, appVars, effectVars, maskVars, hideVars, contentVars, urlVars, cacheVars>>

MainTexNext == FindMainTexFile

\* the other text than the one of kind
OtherKind(kind) == IF kind = "document" THEN "preamble" ELSE "document"

\* the DiffModeEntry of a path: an added entry has no old file, a removed one
\* no new file, the others hold both, the old file of a modified one with
\* another text
NewDiffEntry(path, status, kind) ==
    [path |-> path,
     status |-> status,
     oldFile |-> IF status = "added" THEN Null
                 ELSE IF status = "removed" THEN NewFileEntry(path, kind)
                 ELSE IF status = "modified" THEN NewFileEntry(path, OtherKind(kind))
                 ELSE NewFileEntry(path, kind),
     newFile |-> IF status = "removed" THEN Null ELSE NewFileEntry(path, kind)]

DiffStatuses == {"added", "removed", "modified", "unchanged"}

\* the entry lists buildDiffEntries returns: at most MaxArchiveFiles entries
\* with distinct paths, sorted by path; both files of a modified or unchanged
\* entry were decompressed by fileContentsEqual
BuiltEntryLists ==
    {[k \in 1..Len(order) |->
         NewDiffEntry(ArchivePaths[order[k]], shapes[k][1], shapes[k][2])] :
        <<order, shapes>> \in
            UNION {{<<o, sh>> \in [1..n -> 1..Len(ArchivePaths)]
                                    \X [1..n -> DiffStatuses \X ZipKinds] :
                       /\ \A i, j \in 1..n : i < j => o[i] < o[j]
                       /\ \A i \in 1..n : sh[i][1] \in {"modified", "unchanged"}
                                               => sh[i][2] # "unreadable"} :
                   n \in 0..MaxArchiveFiles}}

\* the preferredFilePath of loadDiffPair: none, or a path that may be listed
PreferredPaths ==
    {Undefined, Null, Str(ArchivePaths[2]), Str(ArchivePaths[3])}

\* lines 386-393 of loadDiffPair: the default file is selected, and
\* findMainTexDiffPath has filled the content of the files it read
SelectDefaultDiffFile ==
    /\ selectPc = "input"
    /\ nextSelectedPath' = NextSelectedPath(builtEntries, preferredPath)
    /\ builtEntries' = WithContentRead(builtEntries, findMainTexDiffPath(builtEntries).read)
    /\ selectPc' = "selected"
    /\ UNCHANGED preferredPath
    /\ UNCHANGED <<commentVars, outlineVars, differVars, pairVars, linkVars, routeVars, mainVars, appVars, effectVars, maskVars, hideVars, contentVars, urlVars, cacheVars>>

SelectNext == SelectDefaultDiffFile

-----------------------------------------------------------------------------
(* The request handlers of the App component: src/src/App.tsx *)

\* a message shown to the user: string | null is null or Message(m)
Message(m) == [message |-> m]

\* the useState values of App this model follows; zipBlob follows files.
\* diffEntriesOwner is bookkeeping: the request whose array diffEntries
\* holds, 0 for a fresh empty array. filesSource is bookkeeping too: the id
\* of the archive files was loaded from, empty for an empty list.
DefaultAppState ==
    [appMode |-> "browse",
     files |-> <<>>,
     filesSource |-> <<>>,
     selectedFile |-> Null,
     loading |-> FALSE,
     initialLoading |-> TRUE,
     toastMessage |-> Null,
     paperId |-> <<>>,
     diffBaseId |-> <<>>,
     diffVersions |-> <<>>,
     diffFromVersion |-> Null,
     diffToVersion |-> Null,
     diffEntries |-> <<>>,
     diffEntriesOwner |-> 0,
     selectedDiffFilePath |-> Null,
     diffMessage |-> Null]

\* the options = {} of a handler call: a missing skipHistory is falsy, a
\* missing replaceHistory is read as options.replaceHistory ?? false
DefaultOptions ==
    [skipHistory |-> FALSE,
     replaceHistory |-> FALSE,
     preferredFromVersion |-> Undefined,
     preferredToVersion |-> Undefined,
     preferredFilePath |-> Undefined]

\* everything a handler reads and writes
World ==
    [app |-> app, history |-> history, requests |-> requests,
     sourceFetches |-> sourceFetches]

\* window.location.pathname
Location(w) == w.history.entries[w.history.index]

Merge(record, changes) ==
    [f \in DOMAIN record |-> IF f \in DOMAIN changes THEN changes[f] ELSE record[f]]

\* a run of setState calls
SetState(w, changes) == [w EXCEPT !.app = Merge(@, changes)]

\* window.history.pushState(null, '', url): the entries after the current one
\* are dropped
pushState(w, url) ==
    [w EXCEPT !.history = [entries |-> Append(SubSeq(@.entries, 1, @.index), url),
                           index |-> @.index + 1]]

\* window.history.replaceState(null, '', url)
replaceState(w, url) == [w EXCEPT !.history.entries[w.history.index] = url]

updateDiffHistory(w, baseId, fromVersion, toVersion, filePath, replace) ==
    LET nextUrl == buildDiffURL(baseId, fromVersion.num, toVersion.num,
                                OrElse(filePath, Undefined))
    IN  IF replace THEN replaceState(w, nextUrl) ELSE pushState(w, nextUrl)

clearDiffState(w) ==
    SetState(w, [diffBaseId |-> <<>>,
                 diffVersions |-> <<>>,
                 diffFromVersion |-> Null,
                 diffToVersion |-> Null,
                 diffEntries |-> <<>>,
                 diffEntriesOwner |-> 0,
                 selectedDiffFilePath |-> Null,
                 diffMessage |-> Null])

\* arxivId.match(/^(.*)v([0-9]+)$/): the index of the v of the version suffix,
\* the length of the id when it has none
VersionSuffixIndex(arxivId) ==
    LET found == {i \in 0..(Len(arxivId) - 2) :
                     /\ At(arxivId, i) = "v"
                     /\ ClassRunEnd(arxivId, i + 1, DigitChars) = Len(arxivId)
                     /\ RunEnd(arxivId, 0, LineTerminators) >= i}
    IN  IF found = {} THEN Len(arxivId) ELSE Max(found)

splitArxivVersion(arxivId) ==
    LET i == VersionSuffixIndex(arxivId)
    IN  IF i = Len(arxivId) THEN [baseId |-> arxivId, version |-> Null]
        ELSE [baseId |-> Slice(arxivId, 0, i),
              version |-> Num(StringToNumber(Slice(arxivId, i + 1, Len(arxivId))))]

\* A handler call that has reached an await: the handler it runs, where it
\* waits, its arguments, what the versions request resolved with (received)
\* and the array its source request resolved with (loaded). superseded is
\* bookkeeping: the user has navigated elsewhere since the call started.
NewRequest(handler, pc, arxivId, fromVersion, toVersion, preferredFilePath, options) ==
    [handler |-> handler,
     pc |-> pc,
     arxivId |-> arxivId,
     fromVersion |-> fromVersion,
     toVersion |-> toVersion,
     preferredFilePath |-> preferredFilePath,
     options |-> options,
     received |-> Null,
     loaded |-> <<>>,
     superseded |-> FALSE]

\* mutant: the finally block leaves initialLoading as it is
FinishRequestKeepsInitialLoading(w, r) ==
    [SetState(w, [loading |-> FALSE]) EXCEPT !.requests[r].pc = "done"]

\* the finally block of handleArxivSubmit and loadDiffPair (setInitialLoading
\* included), and the return of the handler
FinishRequest(w, r) ==
    [SetState(w, [loading |-> FALSE, initialLoading |-> FALSE]) EXCEPT
        !.requests[r].pc = "done"]

\* files.find((file) => file.path === filePath) || null
FindFile(files, filePath) ==
    IF \E k \in 1..Len(files) : files[k].path = filePath.str
    THEN files[Min({k \in 1..Len(files) : files[k].path = filePath.str})]
    ELSE Null

\* nextSelectedFile?.path
PathOf(file) == IF file = Null THEN Undefined ELSE Str(file.path)

BROWSE_ERROR == "Error fetching arXiv source. Please check the URL and try again."

PAIR_ERROR == "Error loading selected version pair."

DIFF_ERROR == "Error loading diff mode. Please verify the arXiv ID and try again."

NO_VERSIONS == "No versions found for this paper."

ONE_VERSION == "Only one version is available for this paper. Diff mode requires at least two versions."

\* handleArxivSubmit up to its first await (lines 313-320)
handleArxivSubmit(w, url, options) ==
    IF extractArxivId(url) = Null
    THEN SetState(w, [toastMessage |-> Message(BROWSE_ERROR), loading |-> FALSE,
                      initialLoading |-> FALSE])
    ELSE [SetState(w, [loading |-> TRUE]) EXCEPT
             !.requests = Append(@, NewRequest("handleArxivSubmit", "fetching",
                                               extractArxivId(url).str, Null, Null,
                                               Undefined, options)),
             !.sourceFetches = @ + 1]

\* lines 340-353: the file is selected, the URL is pushed, the handler ends
ArxivSelectFile(w, r, nextSelectedFile) ==
    LET selected == SetState(w, [selectedFile |-> nextSelectedFile])
        newURL == buildBrowseURL(w.requests[r].arxivId, PathOf(nextSelectedFile))
    IN  FinishRequest(IF w.requests[r].options.skipHistory THEN selected
                      ELSE pushState(selected, newURL), r)

\* lines 321-338: the source request has settled. outcome is what
\* parseZipBlob resolved with, null when the fetch or the archive reader
\* has failed
ArxivSourceSettled(w, r, outcome) ==
    IF outcome = Null
    THEN FinishRequest(SetState(w, [toastMessage |-> Message(BROWSE_ERROR)]), r)
    ELSE LET arxivId == w.requests[r].arxivId
             parsed == SetState(w, [files |-> outcome.entries,
                                    filesSource |-> arxivId,
                                    paperId |-> arxivId])
             currentUrlState == parseURL(Location(w))
             nextSelectedFile ==
                 IF /\ currentUrlState.mode = "browse"
                    /\ OrElse(currentUrlState.filePath, Null) # Null
                    /\ currentUrlState.arxivId = Str(arxivId)
                 THEN FindFile(outcome.entries, currentUrlState.filePath)
                 ELSE Null
         IN  IF nextSelectedFile # Null THEN ArxivSelectFile(parsed, r, nextSelectedFile)
             ELSE [parsed EXCEPT !.requests[r].pc = "findingMain",
                                 !.requests[r].loaded = outcome.entries]

\* the archives a source request is answered with
LoadedArchives ==
    { <<NewFileEntry(ArchivePaths[1], "document")>>,
      <<NewFileEntry(ArchivePaths[3], "preamble"), NewFileEntry(ArchivePaths[4], "preamble"),
        NewFileEntry(ArchivePaths[1], "preamble")>> }

\* the entry lists buildDiffEntries resolves with for two such archives
LoadedEntryLists ==
    { <<NewDiffEntry(ArchivePaths[1], "modified", "document")>>,
      <<NewDiffEntry(ArchivePaths[1], "unchanged", "preamble"),
        NewDiffEntry(ArchivePaths[3], "added", "preamble"),
        NewDiffEntry(ArchivePaths[4], "removed", "document")>> }

\* the file paths a call is given as preferredFilePath
PreferredFilePaths ==
    {Undefined, Null} \cup {Str(ArchivePaths[k]) : k \in 1..Len(ArchivePaths)}

\* what findMainTexFile, findMainTexDiffPath and the selection of loadDiffPair
\* give on these archives and lists, computed once
MainTexFiles == [loaded \in LoadedArchives |-> findMainTexFile(loaded)]

MainTexDiffPaths == [loaded \in LoadedEntryLists |-> findMainTexDiffPath(loaded)]

NextSelectedPaths ==
    [loaded \in LoadedEntryLists |->
        [preferredFilePath \in PreferredFilePaths |->
            NextSelectedPath(loaded, preferredFilePath)]]

\* line 337: findMainTexFile has resolved
ArxivMainFileFound(w, r) ==
    ArxivSelectFile(w, r, MainTexFiles[w.requests[r].loaded])

\* loadDiffPair up to its first await (lines 365-372), as request r: a new
\* request, or the handleDiffSubmit call that awaits it
loadDiffPair(w, r, baseId, fromVersion, toVersion, preferredFilePath, options) ==
    [SetState(w, [loading |-> TRUE, diffMessage |-> Null]) EXCEPT
        !.requests = [k \in 1..Max({r, Len(@)}) |->
                         IF k # r THEN @[k]
                         ELSE [NewRequest("loadDiffPair", "fetching", baseId,
                                          fromVersion, toVersion, preferredFilePath,
                                          options)
                                  EXCEPT !.superseded = r <= Len(w.requests)
                                                        /\ w.requests[r].superseded]],
        !.sourceFetches = @ + 2]

\* lines 374-385: the two source requests have settled and buildDiffEntries
\* has resolved with outcome.entries; outcome is null when one of them has
\* failed
DiffSourcesSettled(w, r, outcome) ==
    IF outcome = Null
    THEN FinishRequest(SetState(w, [toastMessage |-> Message(PAIR_ERROR)]), r)
    ELSE [SetState(w, [diffEntries |-> outcome.entries,
                       diffEntriesOwner |-> r,
                       diffFromVersion |-> w.requests[r].fromVersion,
                       diffToVersion |-> w.requests[r].toVersion]) EXCEPT
             !.requests[r].pc = "findingMain",
             !.requests[r].loaded = outcome.entries]

\* lines 386-404: findMainTexDiffPath has resolved; the files it read have
\* their content, in diffEntries too when it still holds the array
DiffMainFileFound(w, r) ==
    LET request == w.requests[r]
        selectedPath == NextSelectedPaths[request.loaded][request.preferredFilePath]
        read == MainTexDiffPaths[request.loaded].read
        selected ==
            SetState(w, [selectedDiffFilePath |-> selectedPath,
                         diffEntries |-> IF w.app.diffEntriesOwner = r
                                         THEN WithContentRead(w.app.diffEntries, read)
                                         ELSE w.app.diffEntries])
    IN  FinishRequest(
            IF request.options.skipHistory THEN selected
            ELSE updateDiffHistory(selected, request.arxivId, request.fromVersion,
                                   request.toVersion, selectedPath,
                                   request.options.replaceHistory), r)

\* handleDiffSubmit up to its first await (lines 408-417)
handleDiffSubmit(w, input, options) ==
    IF extractArxivId(input) = Null
    THEN SetState(w, [toastMessage |-> Message(DIFF_ERROR), loading |-> FALSE,
                      initialLoading |-> FALSE])
    ELSE [SetState(w, [loading |-> TRUE]) EXCEPT
             !.requests = Append(@, NewRequest("handleDiffSubmit", "fetching",
                                     splitArxivVersion(extractArxivId(input).str).baseId,
                                     options.preferredFromVersion,
                                     options.preferredToVersion,
                                     options.preferredFilePath, options))]

\* mutant: a list of one version is compared like a longer one
FewerThanOneVersion(versionList) == Len(versionList) < 1

\* versionsPayload.versions.length < 2
FewerThanTwoVersions(versionList) == Len(versionList) < 2

\* lines 418-477: the versions request has settled. payload is the JSON
\* received (its baseId is the one asked for), [ok |-> FALSE] when the request
\* failed or the response is not a valid version list
VersionsSettled(w, r, payload) ==
    LET request == w.requests[r]
        options == request.options
        listed == SetState([w EXCEPT !.requests[r].received = payload],
                           [diffBaseId |-> request.arxivId,
                            paperId |-> request.arxivId,
                            diffVersions |-> payload.versions,
                            appMode |-> "diff"])
        pair == selectPreferredDiffPair(payload.versions,
                                        options.preferredFromVersion,
                                        options.preferredToVersion)
        oneVersion == SetState(listed,
                               [diffFromVersion |-> pair.fromVersion,
                                diffToVersion |-> pair.toVersion,
                                diffEntries |-> <<>>,
                                diffEntriesOwner |-> 0,
                                selectedDiffFilePath |-> Null,
                                diffMessage |-> Message(ONE_VERSION)])
    IN  IF ~payload.ok
        THEN FinishRequest(SetState([w EXCEPT !.requests[r].received = payload],
                                    [toastMessage |-> Message(DIFF_ERROR)]), r)
        ELSE IF pair.fromVersion = Null \/ pair.toVersion = Null
        THEN FinishRequest(SetState(listed, [diffMessage |-> Message(NO_VERSIONS),
                                             diffEntries |-> <<>>,
                                             diffEntriesOwner |-> 0,
                                             selectedDiffFilePath |-> Null]), r)
        ELSE IF FewerThanTwoVersions(payload.versions)
        THEN FinishRequest(
                 IF options.skipHistory THEN oneVersion
                 ELSE updateDiffHistory(oneVersion, request.arxivId, pair.fromVersion,
                                        pair.toVersion, Null,
                                        options.replaceHistory), r)
        ELSE [loadDiffPair(listed, r, request.arxivId, pair.fromVersion,
                           pair.toVersion, options.preferredFilePath, options)
                 EXCEPT !.requests[r].received = payload]

handleLogoClick(w) ==
    pushState(clearDiffState(SetState(w, [appMode |-> "browse",
                                          files |-> <<>>,
                                          filesSource |-> <<>>,
                                          selectedFile |-> Null,
                                          paperId |-> <<>>,
                                          initialLoading |-> FALSE])),
              BASE_URL)

handleModeSwitch(w, mode) ==
    LET switched == SetState(w, [appMode |-> mode, initialLoading |-> FALSE])
    IN  IF mode = w.app.appMode THEN w
        ELSE IF mode = "browse"
        THEN IF w.app.paperId # <<>> /\ Len(w.app.files) > 0
             THEN pushState(switched, buildBrowseURL(w.app.paperId,
                                                     PathOf(w.app.selectedFile)))
             ELSE pushState(switched, BASE_URL)
        ELSE IF /\ w.app.diffBaseId # <<>>
                /\ w.app.diffFromVersion # Null
                /\ w.app.diffToVersion # Null
        THEN updateDiffHistory(switched, w.app.diffBaseId, w.app.diffFromVersion,
                               w.app.diffToVersion, w.app.selectedDiffFilePath, FALSE)
        ELSE switched

handleDiffFromVersionChange(w, version) ==
    IF w.app.diffBaseId = <<>> \/ w.app.diffToVersion = Null THEN w
    ELSE loadDiffPair(w, Len(w.requests) + 1, w.app.diffBaseId, Num(version),
                      w.app.diffToVersion, w.app.selectedDiffFilePath,
                      [DefaultOptions EXCEPT !.replaceHistory = FALSE])

handleDiffToVersionChange(w, version) ==
    IF w.app.diffBaseId = <<>> \/ w.app.diffFromVersion = Null THEN w
    ELSE loadDiffPair(w, Len(w.requests) + 1, w.app.diffBaseId,
                      w.app.diffFromVersion, Num(version),
                      w.app.selectedDiffFilePath,
                      [DefaultOptions EXCEPT !.replaceHistory = FALSE])

handleInputSubmit(w, url) ==
    IF w.app.appMode = "diff" THEN handleDiffSubmit(w, url, DefaultOptions)
    ELSE handleArxivSubmit(w, url, DefaultOptions)

\* the popstate listener, run after the browser has moved to another entry
handlePopState(w) ==
    LET urlState == parseURL(Location(w))
        inDiff == SetState(w, [appMode |-> "diff"])
        inBrowse == SetState(w, [appMode |-> "browse"])
        alreadyLoaded ==
            /\ Str(w.app.diffBaseId) = urlState.arxivId
            /\ w.app.diffFromVersion = urlState.fromVersion
            /\ w.app.diffToVersion = urlState.toVersion
            /\ Len(w.app.diffEntries) > 0
        diffPaper == SetState(inDiff, [paperId |-> urlState.arxivId.str])
        targetFile == IF urlState.filePath = Null THEN Null
                      ELSE FindFile(w.app.files, urlState.filePath)
    IN  IF urlState.mode = "diff"
        THEN IF /\ urlState.arxivId # Null
                /\ urlState.fromVersion # Null
                /\ urlState.toVersion # Null
             THEN IF alreadyLoaded
                  THEN IF HasPreferredPath(w.app.diffEntries, urlState.filePath)
                       THEN SetState(diffPaper, [selectedDiffFilePath |-> urlState.filePath])
                       ELSE SetState(diffPaper,
                                [selectedDiffFilePath |->
                                    OrElse(FirstChangedPath(w.app.diffEntries),
                                           OrElse(Str(w.app.diffEntries[1].path), Null))])
                  ELSE handleDiffSubmit(diffPaper, urlState.arxivId.str,
                           [DefaultOptions EXCEPT
                               !.preferredFromVersion = urlState.fromVersion,
                               !.preferredToVersion = urlState.toVersion,
                               !.preferredFilePath = urlState.filePath,
                               !.skipHistory = TRUE])
             ELSE inDiff
        ELSE IF urlState.arxivId # Null /\ urlState.arxivId # Str(w.app.paperId)
        THEN handleArxivSubmit(SetState(inBrowse, [paperId |-> urlState.arxivId.str]),
                               urlState.arxivId.str,
                               [DefaultOptions EXCEPT !.skipHistory = TRUE])
        ELSE IF urlState.arxivId = Null /\ w.app.paperId # <<>>
        THEN SetState(inBrowse, [files |-> <<>>, filesSource |-> <<>>,
                                 selectedFile |-> Null, paperId |-> <<>>,
                                 initialLoading |-> FALSE])
        ELSE IF urlState.arxivId = Str(w.app.paperId) /\ Len(w.app.files) > 0
        THEN IF targetFile # Null /\ targetFile # w.app.selectedFile
             THEN SetState(inBrowse, [selectedFile |-> targetFile])
             ELSE inBrowse
        ELSE inBrowse

\* the mount effect (lines 518-540), run on the location the page is opened
\* at
mountEffect(w) ==
    LET urlState == parseURL(Location(w))
    IN  IF /\ urlState.mode = "diff"
           /\ urlState.arxivId # Null
           /\ urlState.fromVersion # Null
           /\ urlState.toVersion # Null
        THEN handleDiffSubmit(SetState(w, [appMode |-> "diff",
                                           paperId |-> urlState.arxivId.str]),
                              urlState.arxivId.str,
                              [DefaultOptions EXCEPT
                                  !.preferredFromVersion = urlState.fromVersion,
                                  !.preferredToVersion = urlState.toVersion,
                                  !.preferredFilePath = urlState.filePath,
                                  !.skipHistory = TRUE])
        ELSE IF urlState.mode = "browse" /\ urlState.arxivId # Null
        THEN handleArxivSubmit(SetState(w, [appMode |-> "browse"]),
                               urlState.arxivId.str,
                               [DefaultOptions EXCEPT !.skipHistory = TRUE])
        ELSE SetState(w, [initialLoading |-> FALSE])

-----------------------------------------------------------------------------
(* Inputs and actions of the request handlers *)

\* the papers of the links the page is opened with
OpenedPaper == <<"2", "3", "0", "1", ".", "1", "2", "3", "4">>

VisitedPaper == <<"1", "7", "0", "6", ".", "0", "3", "7", "6", "2", "v", "2">>

\* the session histories the page is opened in: a new tab on the home page, a
\* link to a paper, a link to a comparison, and a reload on the second of two
\* papers visited one after the other
OpenedHistories ==
    { [entries |-> <<BASE_URL>>, index |-> 1],
      [entries |-> <<buildBrowseURL(OpenedPaper, Undefined)>>, index |-> 1],
      [entries |-> <<buildDiffURL(OpenedPaper, 1, 2, Undefined)>>, index |-> 1],
      [entries |-> <<buildBrowseURL(VisitedPaper, Undefined),
                     buildBrowseURL(OpenedPaper, Undefined)>>, index |-> 2] }

\* the component before its mount effect, in the session history opened
Constructed(opened) ==
    [app |-> DefaultAppState, history |-> opened, requests |-> <<>>,
     sourceFetches |-> 0]

\* what the user submits: a versioned id, a plain id, a text that is no id
SubmittedInputs ==
    { <<"1", "7", "0", "6", ".", "0", "3", "7", "6", "2", "v", "2">>,
      <<"2", "3", "0", "1", ".", "1", "2", "3", "4">>,
      <<"1", "7", ".", "0", "3">> }

\* what the versions request resolves with: the versions 1..n of the paper,
\* or a failure
VersionPayloads ==
    {[ok |-> FALSE, versions |-> <<>>]}
        \cup {[ok |-> TRUE, versions |-> [k \in 1..n |-> [version |-> k]]] :
                 n \in 0..MaxVersion}

\* what a request is about: the paper and the version pair
Target(request) == <<request.arxivId, request.fromVersion, request.toVersion>>

\* the requests after a user event: when the event has started a request,
\* the earlier ones still waiting for another paper or pair are superseded;
\* when it has reset the page, all of them are
MarkSuperseded(before, after, reset) ==
    [k \in 1..Len(after) |->
        IF /\ k <= Len(before)
           /\ after[k].pc # "done"
           /\ \/ reset
              \/ Len(after) > Len(before) /\ Target(after[k]) # Target(after[Len(after)])
        THEN [after[k] EXCEPT !.superseded = TRUE]
        ELSE after[k]]

\* the component is mounted: the window has a current history entry
Mounted == history.index > 0

Commit(w) ==
    /\ app' = w.app
    /\ history' = w.history
    /\ requests' = w.requests
    /\ sourceFetches' = w.sourceFetches

\* a user event whose handler has brought the world to w
UserEvent(w, reset) ==
    /\ Mounted
    /\ userActions < MaxUserActions
    /\ Commit([w EXCEPT !.requests = MarkSuperseded(requests, @, reset)])
    /\ userActions' = userActions + 1
    /\ UNCHANGED <<commentVars, outlineVars, differVars, pairVars, linkVars, routeVars, mainVars, selectVars, effectVars, maskVars, hideVars, contentVars, urlVars, cacheVars>>

\* a continuation of request r that has brought the world to w
Continuation(w) ==
    /\ Commit(w)
    /\ UNCHANGED userActions
    /\ UNCHANGED <<commentVars, outlineVars, differVars, pairVars, linkVars, routeVars, mainVars, selectVars, effectVars, maskVars, hideVars, contentVars, urlVars, cacheVars>>

Waiting(r, handler, pc) ==
    /\ Mounted
    /\ requests[r].handler = handler
    /\ requests[r].pc = pc

\* the form of ArxivInput is submitted with the text typed into it; the
\* input is disabled while loading
HandleInputSubmit ==
    \E url \in SubmittedInputs :
        /\ ~app.loading
        /\ UserEvent(handleInputSubmit(SetState(World, [paperId |-> url]), url), FALSE)

\* the logo is clickable at any time
HandleLogoClick ==
    /\ Mounted
    /\ UserEvent(handleLogoClick(World), TRUE)

HandleModeSwitch ==
    \E mode \in {"browse", "diff"} :
        /\ mode # app.appMode
        /\ UserEvent(handleModeSwitch(World, mode), FALSE)

\* the selects of VersionPicker list diffVersions and are disabled while
\* loading
HandleDiffFromVersionChange ==
    \E k \in 1..Len(app.diffVersions) :
        /\ ~app.loading
        /\ Num(app.diffVersions[k].version) # app.diffFromVersion
        /\ UserEvent(handleDiffFromVersionChange(World, app.diffVersions[k].version), FALSE)

HandleDiffToVersionChange ==
    \E k \in 1..Len(app.diffVersions) :
        /\ ~app.loading
        /\ Num(app.diffVersions[k].version) # app.diffToVersion
        /\ UserEvent(handleDiffToVersionChange(World, app.diffVersions[k].version), FALSE)

\* the user goes back or forward by one entry
HandlePopState ==
    \E delta \in {-1, 1} :
        /\ history.index + delta \in 1..Len(history.entries)
        /\ LET moved == [World EXCEPT !.history.index = @ + delta]
           IN  UserEvent(handlePopState(moved), parseURL(Location(moved)).arxivId = Null)

ArxivSourceArrives ==
    \E r \in 1..Len(requests), outcome \in {Null} \cup {[entries |-> e] : e \in LoadedArchives} :
        /\ Waiting(r, "handleArxivSubmit", "fetching")
        /\ Continuation(ArxivSourceSettled(World, r, outcome))

ArxivMainFileArrives ==
    \E r \in 1..Len(requests) :
        /\ Waiting(r, "handleArxivSubmit", "findingMain")
        /\ Continuation(ArxivMainFileFound(World, r))

VersionsArrive ==
    \E r \in 1..Len(requests), payload \in VersionPayloads :
        /\ Waiting(r, "handleDiffSubmit", "fetching")
        /\ Continuation(VersionsSettled(World, r, payload))

DiffSourcesArrive ==
    \E r \in 1..Len(requests), outcome \in {Null} \cup {[entries |-> e] : e \in LoadedEntryLists} :
        /\ Waiting(r, "loadDiffPair", "fetching")
        /\ Continuation(DiffSourcesSettled(World, r, outcome))

DiffMainFileArrives ==
    \E r \in 1..Len(requests) :
        /\ Waiting(r, "loadDiffPair", "findingMain")
        /\ Continuation(DiffMainFileFound(World, r))

AppNext ==
    \/ HandleInputSubmit
    \/ HandleLogoClick
    \/ HandleModeSwitch
    \/ HandleDiffFromVersionChange
    \/ HandleDiffToVersionChange
    \/ HandlePopState
    \/ ArxivSourceArrives
    \/ ArxivMainFileArrives
    \/ VersionsArrive
    \/ DiffSourcesArrive
    \/ DiffMainFileArrives

-----------------------------------------------------------------------------
(* The effects that read file contents: src/src/App.tsx, FileViewer.tsx, *)
(* DiffViewer.tsx                                                         *)

\* lineCount < 150
OUTLINE_MIN_LINES == 150

\* the extensions getFileType maps to 'tex'
TEX_EXTENSIONS ==
    { <<"t", "e", "x">>, <<"l", "a", "t", "e", "x">>, <<"s", "t", "y">>,
      <<"b", "b", "l">>, <<"c", "l", "s">>, <<"d", "t", "x">>, <<"i", "n", "s">> }

\* filename.toLowerCase().split('.').pop()
FileExtension(filename) ==
    LET lower == ToLowerCase(filename)
        dots == {k \in 1..Len(lower) : lower[k] = "."}
    IN  IF dots = {} THEN lower ELSE SubSeq(lower, Max(dots) + 1, Len(lower))

\* getFileType(name) === 'tex'
IsTexType(filename) == FileExtension(filename) \in TEX_EXTENSIONS

VIEWER_ERROR == "Error loading file content"

DIFF_VIEWER_ERROR == "Could not load file content for diff rendering."

\* the useState values the effects write: appMode, selectedFile (null or
\* Num(k) for the k-th FileEntry), hideCommentsInViewer and texOutline of
\* App; content and loading of FileViewer; oldText, newText, loading and
\* fallbackError of DiffViewer; selectedDiffEntry is the entry
\* selectedDiffFilePath names
DefaultViewState ==
    [appMode |-> "browse",
     selectedFile |-> Null,
     hideCommentsInViewer |-> FALSE,
     texOutline |-> <<>>,
     content |-> Str(<<>>),
     viewerLoading |-> FALSE,
     selectedDiffEntry |-> Null,
     oldText |-> <<>>,
     newText |-> <<>>,
     diffLoading |-> FALSE,
     fallbackError |-> Null]

\* everything an effect reads and writes
EffectsWorld == [files |-> heapFiles, view |-> view, effects |-> effects]

SetView(w, changes) == [w EXCEPT !.view = Merge(@, changes)]

\* file.content = text on the k-th FileEntry
StoreContent(w, k, textRead) == [w EXCEPT !.files[k].content = Str(textRead)]

\* An effect run or a findMainTexDiffPath call: what it is, whether it still
\* waits, the file references it closed over, its cancelled flag, whether its
\* component is unmounted, the hideCommentsInViewer it closed over, the
\* contents the DiffViewer found cached, the candidates findMainTexDiffPath
\* has not tried and whether its continuation has called a state setter
NewEffect(kind, file, oldFile, newFile) ==
    [kind |-> kind,
     pc |-> "reading",
     file |-> file,
     oldFile |-> oldFile,
     newFile |-> newFile,
     cancelled |-> FALSE,
     unmounted |-> FALSE,
     hideCommentsInViewer |-> FALSE,
     oldContent |-> Null,
     newContent |-> Null,
     candidates |-> <<>>,
     updated |-> FALSE]

\* the state setters the continuation of the i-th effect run calls
SetViewBy(w, i, changes) == [SetView(w, changes) EXCEPT !.effects[i].updated = TRUE]

\* the cleanup function of the effect: cancelled = true
Cleanup(w, kind) ==
    [w EXCEPT !.effects = [i \in 1..Len(@) |->
                              IF @[i].kind = kind THEN [@[i] EXCEPT !.cancelled = TRUE]
                              ELSE @[i]]]

\* mutant: the continuation never sees the cleanup
NeverCancelled(effect) == FALSE

\* if (cancelled) return
Cancelled(effect) == effect.cancelled

\* the FileEntry objects: files 1 and 2 are the files of the archive browsed,
\* files 3 to 5 are the ones the entries of ShownDiffEntries hold
ShownFiles ==
    << NewFileEntry(ArchivePaths[1], "document"),
       NewFileEntry(ArchivePaths[4], "unreadable"),
       NewFileEntry(ArchivePaths[1], "document"),
       NewFileEntry(ArchivePaths[1], "preamble"),
       NewFileEntry(ArchivePaths[4], "document") >>

BrowsedFiles == {1, 2}

\* lines 676-704 of the outline effect: the outline set for a text
OutlineShown(outlinedText, hideComments) ==
    LET parsed == parseTexOutline(outlinedText)
        lineMap == buildVisibleLineMapAfterCommentStrip(outlinedText)
        mappedEntries == [k \in 1..Len(parsed.entries) |->
                             [parsed.entries[k] EXCEPT !.lineNumber = lineMap[@]]]
    IN  IF parsed.lineCount < OUTLINE_MIN_LINES \/ Len(parsed.entries) <= 1 THEN <<>>
        ELSE IF ~hideComments THEN parsed.entries
        ELSE SelectSeq(mappedEntries, LAMBDA entry : entry.lineNumber > 0)

\* OutlineShown of every text a file on display holds
ShownOutlines ==
    [shownText \in {ShownFiles[k].zipText : k \in 1..Len(ShownFiles)} |->
        [hideComments \in BOOLEAN |-> OutlineShown(shownText, hideComments)]]

\* the outline the effect sets for a text on display: OutlineShown of it,
\* which outlines holds
OutlineOf(outlinedText, hideComments) ==
    outlines[outlinedText][hideComments]

\* the outline effect runs (lines 653-718): the previous run is cleaned up,
\* loadOutline runs up to its await
RunOutlineEffect(w) ==
    LET cleaned == Cleanup(w, "outline")
        selected == w.view.selectedFile
    IN  IF w.view.appMode # "browse" THEN SetView(cleaned, [texOutline |-> <<>>])
        ELSE IF selected = Null THEN SetView(cleaned, [texOutline |-> <<>>])
        ELSE IF ~IsTexType(w.files[selected.num].path)
        THEN SetView(cleaned, [texOutline |-> <<>>])
        ELSE IF w.files[selected.num].content # Null
        THEN SetView(cleaned,
                     [texOutline |-> OutlineOf(w.files[selected.num].content.str,
                                                  w.view.hideCommentsInViewer)])
        ELSE [cleaned EXCEPT !.effects =
                 Append(@, [NewEffect("outline", selected, Null, Null) EXCEPT
                               !.hideCommentsInViewer = w.view.hideCommentsInViewer])]

\* lines 672-709: the decompression loadOutline awaited has settled
OutlineSettled(w, i) ==
    LET effect == w.effects[i]
        k == effect.file.num
        settled == [w EXCEPT !.effects[i].pc = "done"]
        stored == StoreContent(settled, k, w.files[k].zipText)
    IN  IF ~w.files[k].readable
        THEN IF Cancelled(effect) THEN settled
             ELSE SetViewBy(settled, i, [texOutline |-> <<>>])
        ELSE IF Cancelled(effect) THEN stored
        ELSE SetViewBy(stored, i, [texOutline |-> OutlineOf(w.files[k].zipText,
                                                      effect.hideCommentsInViewer)])

\* the load effect of FileViewer runs for a new file (lines 378-462)
RunViewerEffect(w) ==
    LET selected == w.view.selectedFile
    IN  IF w.files[selected.num].content # Null
        THEN SetView(w, [content |-> w.files[selected.num].content])
        ELSE [SetView(w, [content |-> Str(<<>>), viewerLoading |-> TRUE]) EXCEPT
                 !.effects = Append(@, NewEffect("viewer", selected, Null, Null))]

\* lines 428-436 of FileViewer: the decompression has settled; the setState
\* calls of an unmounted component do nothing
ViewerSettled(w, i) ==
    LET effect == w.effects[i]
        k == effect.file.num
        settled == [w EXCEPT !.effects[i].pc = "done"]
    IN  IF ~w.files[k].readable
        THEN IF effect.unmounted THEN settled
             ELSE SetViewBy(settled, i, [content |-> Message(VIEWER_ERROR),
                                         viewerLoading |-> FALSE])
        ELSE IF effect.unmounted THEN StoreContent(settled, k, w.files[k].zipText)
        ELSE SetViewBy(StoreContent(settled, k, w.files[k].zipText), i,
                       [content |-> Str(w.files[k].zipText), viewerLoading |-> FALSE])

\* FileViewer is unmounted
UnmountViewer(w) ==
    [w EXCEPT !.effects = [i \in 1..Len(@) |->
                              IF @[i].kind = "viewer" THEN [@[i] EXCEPT !.unmounted = TRUE]
                              ELSE @[i]]]

\* the comparison on display: a.tex modified, d.tex added; an entry holds
\* null or Num(k) for the k-th FileEntry
ShownDiffEntries ==
    << [path |-> ArchivePaths[1], status |-> "modified",
        oldFile |-> Num(3), newFile |-> Num(4)],
       [path |-> ArchivePaths[4], status |-> "added",
        oldFile |-> Null, newFile |-> Num(5)] >>

\* oldFile.content !== null ? Promise.resolve(oldFile.content) : ..., and
\* Promise.resolve('') without a file: null when the file is to be read
CachedContent(w, file) ==
    IF file = Null THEN Str(<<>>) ELSE w.files[file.num].content

\* the load effect of DiffViewer runs (lines 87-174) for the selected entry
RunDiffEffect(w) ==
    LET cleaned == Cleanup(w, "diff")
        entry == ShownDiffEntries[w.view.selectedDiffEntry.num]
    IN  IF w.view.appMode # "diff" \/ w.view.selectedDiffEntry = Null THEN cleaned
        ELSE [SetView(cleaned, [oldText |-> <<>>,
                                newText |-> <<>>,
                                fallbackError |-> Null,
                                diffLoading |-> TRUE]) EXCEPT
                 !.effects = Append(@, [NewEffect("diff", Null, entry.oldFile, entry.newFile)
                                           EXCEPT !.oldContent = CachedContent(w, entry.oldFile),
                                                  !.newContent = CachedContent(w, entry.newFile)])]

\* mutant: the two assignments are crossed
DiffViewerStoreCrossed(w, oldFile, newFile, oldContent, newContent) ==
    LET old == IF oldFile = Null THEN w ELSE StoreContent(w, oldFile.num, newContent)
    IN  IF newFile = Null THEN old ELSE StoreContent(old, newFile.num, oldContent)

\* lines 141-146 of DiffViewer: oldFile.content = oldContent,
\* newFile.content = newContent
DiffViewerStore(w, oldFile, newFile, oldContent, newContent) ==
    LET old == IF oldFile = Null THEN w ELSE StoreContent(w, oldFile.num, oldContent)
    IN  IF newFile = Null THEN old ELSE StoreContent(old, newFile.num, newContent)

\* lines 130-162 of DiffViewer: the Promise.all of the two contents has
\* settled
DiffSettled(w, i) ==
    LET effect == w.effects[i]
        settled == [w EXCEPT !.effects[i].pc = "done"]
        rejected ==
            \/ effect.oldContent = Null /\ ~w.files[effect.oldFile.num].readable
            \/ effect.newContent = Null /\ ~w.files[effect.newFile.num].readable
        oldContent == IF effect.oldContent # Null THEN effect.oldContent.str
                      ELSE w.files[effect.oldFile.num].zipText
        newContent == IF effect.newContent # Null THEN effect.newContent.str
                      ELSE w.files[effect.newFile.num].zipText
    IN  IF Cancelled(effect) THEN settled
        ELSE IF rejected
        THEN SetViewBy(settled, i, [fallbackError |-> Message(DIFF_VIEWER_ERROR),
                                    diffLoading |-> FALSE])
        ELSE SetViewBy(DiffViewerStore(settled, effect.oldFile, effect.newFile,
                                       oldContent, newContent), i,
                       [oldText |-> oldContent, newText |-> newContent,
                        diffLoading |-> FALSE])

\* the for loop of findMainTexDiffPath (lines 201-218) over the candidates
\* left, up to its next await or its return
RECURSIVE FindMainRun(_, _, _)
FindMainRun(w, i, candidates) ==
    IF Len(candidates) = 0
    THEN [w EXCEPT !.effects[i].pc = "done", !.effects[i].candidates = <<>>]
    ELSE LET sourceFile == SourceFile(ShownDiffEntries[candidates[1]])
         IN  IF sourceFile = Null THEN FindMainRun(w, i, Tail(candidates))
             ELSE IF w.files[sourceFile.num].content = Null
             THEN [w EXCEPT !.effects[i].pc = "reading",
                            !.effects[i].candidates = candidates]
             ELSE IF IncludesWord(w.files[sourceFile.num].content.str, BEGIN_DOCUMENT)
             THEN [w EXCEPT !.effects[i].pc = "done", !.effects[i].candidates = <<>>]
             ELSE FindMainRun(w, i, Tail(candidates))

\* findMainTexDiffPath(entries) is called (lines 191-199)
StartFindMain(w) ==
    LET texCandidates ==
            SelectSeq([k \in 1..Len(ShownDiffEntries) |-> k],
                      LAMBDA k : IsTexEntry(ShownDiffEntries[k]))
        called == [w EXCEPT !.effects =
                      Append(@, [NewEffect("findMain", Null, Null, Null)
                                    EXCEPT !.pc = "done"])]
    IN  IF Len(texCandidates) <= 1 THEN called
        ELSE FindMainRun(called, Len(called.effects), texCandidates)

\* lines 208-216: the decompression findMainTexDiffPath awaited has settled
FindMainSettled(w, i) ==
    LET candidates == w.effects[i].candidates
        k == SourceFile(ShownDiffEntries[candidates[1]]).num
        stored == StoreContent(w, k, w.files[k].zipText)
    IN  IF ~w.files[k].readable THEN FindMainRun(w, i, Tail(candidates))
        ELSE IF IncludesWord(w.files[k].zipText, BEGIN_DOCUMENT)
        THEN [stored EXCEPT !.effects[i].pc = "done", !.effects[i].candidates = <<>>]
        ELSE FindMainRun(stored, i, Tail(candidates))

\* lines 720-722: hideCommentsInViewer is reset when the path of the selected
\* file changes; the outline effect runs again when that changes the flag
ResetHideComments(w) ==
    IF w.view.hideCommentsInViewer
    THEN RunOutlineEffect(SetView(w, [hideCommentsInViewer |-> FALSE]))
    ELSE w

\* handleFileSelect (lines 742-753) and the commit it causes
handleFileSelect(w, k) ==
    ResetHideComments(
        RunOutlineEffect(RunViewerEffect(SetView(w, [selectedFile |-> Num(k)]))))

\* onHideCommentsChange and the commit it causes
ChangeHideComments(w, hideComments) ==
    RunOutlineEffect(SetView(w, [hideCommentsInViewer |-> hideComments]))

\* setAppMode and the commit it causes: the viewer of the other mode is
\* unmounted, the one of this mode is mounted
ChangeAppMode(w, mode) ==
    LET switched == SetView(w, [appMode |-> mode])
    IN  IF mode = "diff"
        THEN RunDiffEffect(RunOutlineEffect(UnmountViewer(switched)))
        ELSE IF w.view.selectedFile = Null
        THEN RunOutlineEffect(Cleanup(switched, "diff"))
        ELSE RunOutlineEffect(RunViewerEffect(Cleanup(switched, "diff")))

\* handleDiffFileSelect (lines 832-837) and the commit it causes
handleDiffFileSelect(w, e) ==
    RunDiffEffect(SetView(w, [selectedDiffEntry |-> Num(e)]))

-----------------------------------------------------------------------------
(* Inputs and actions of the effects *)

EffectsMounted == Len(heapFiles) > 0

CommitEffects(w) ==
    /\ heapFiles' = w.files
    /\ view' = w.view
    /\ effects' = w.effects
    /\ outlines' = outlines

\* a user event whose commit has brought the world to w
ViewEvent(w) ==
    /\ EffectsMounted
    /\ userActions < MaxUserActions
    /\ CommitEffects(w)
    /\ userActions' = userActions + 1
    /\ UNCHANGED <<app, history, requests, sourceFetches>>
    /\ UNCHANGED <<commentVars, outlineVars, differVars, pairVars, linkVars, routeVars, mainVars, selectVars, maskVars, hideVars, contentVars, urlVars, cacheVars>>

\* a decompression has settled and has brought the world to w
Settlement(w) ==
    /\ CommitEffects(w)
    /\ UNCHANGED appVars
    /\ UNCHANGED <<commentVars, outlineVars, differVars, pairVars, linkVars, routeVars, mainVars, selectVars, maskVars, hideVars, contentVars, urlVars, cacheVars>>

Reading(i, kind) ==
    /\ EffectsMounted
    /\ effects[i].kind = kind
    /\ effects[i].pc = "reading"

HandleFileSelect ==
    \E k \in BrowsedFiles :
        /\ view.appMode = "browse"
        /\ view.selectedFile # Num(k)
        /\ ViewEvent(handleFileSelect(EffectsWorld, k))

\* the toggle of FileViewer, shown for a tex file
HideCommentsChange ==
    /\ view.appMode = "browse"
    /\ view.selectedFile # Null
    /\ ViewEvent(ChangeHideComments(EffectsWorld, ~view.hideCommentsInViewer))

AppModeChange ==
    \E mode \in {"browse", "diff"} :
        /\ mode # view.appMode
        /\ ViewEvent(ChangeAppMode(EffectsWorld, mode))

HandleDiffFileSelect ==
    \E e \in 1..Len(ShownDiffEntries) :
        /\ view.appMode = "diff"
        /\ view.selectedDiffEntry # Num(e)
        /\ ViewEvent(handleDiffFileSelect(EffectsWorld, e))

\* loadDiffPair calls findMainTexDiffPath once on the entries it has built
FindMainTexDiffPath ==
    /\ EffectsMounted
    /\ \A i \in 1..Len(effects) : effects[i].kind # "findMain"
    /\ Settlement(StartFindMain(EffectsWorld))

OutlineReadSettles ==
    \E i \in 1..Len(effects) :
        /\ Reading(i, "outline")
        /\ Settlement(OutlineSettled(EffectsWorld, i))

ViewerReadSettles ==
    \E i \in 1..Len(effects) :
        /\ Reading(i, "viewer")
        /\ Settlement(ViewerSettled(EffectsWorld, i))

DiffReadSettles ==
    \E i \in 1..Len(effects) :
        /\ Reading(i, "diff")
        /\ Settlement(DiffSettled(EffectsWorld, i))

FindMainReadSettles ==
    \E i \in 1..Len(effects) :
        /\ Reading(i, "findMain")
        /\ Settlement(FindMainSettled(EffectsWorld, i))

EffectsNext ==
    \/ HandleFileSelect
    \/ HideCommentsChange
    \/ AppModeChange
    \/ HandleDiffFileSelect
    \/ FindMainTexDiffPath
    \/ OutlineReadSettles
    \/ ViewerReadSettles
    \/ DiffReadSettles
    \/ FindMainReadSettles

-----------------------------------------------------------------------------
(* Inputs and actions of the two comment maskers *)

\* "a\\%b": the percent sign follows two backslashes and starts a comment
DoubleBackslashExampleText == <<"a", BACKSLASH, BACKSLASH, PERCENT, "b", NEWLINE, "c">>

MaskTexts ==
    CommentTexts \cup {DoubleBackslashExampleText}

\* parseTexOutline masks its content (part_006 line 142)
StripCommentsPreservingLength ==
    /\ maskPc = "input"
    /\ outlineMasked' = stripCommentsPreservingLength(maskInput)
    /\ maskPc' = "outline"
    /\ UNCHANGED <<maskInput, linkMasked>>
    /\ UNCHANGED <<commentVars, outlineVars, differVars, pairVars, linkVars, routeVars, mainVars, selectVars, appVars, effectVars, hideVars, contentVars, urlVars, cacheVars>>

\* collectLatexLinkSpans masks the same text (latexLinks.ts)
MaskLatexCommentsPreservingLength ==
    /\ maskPc = "outline"
    /\ linkMasked' = maskLatexCommentsPreservingLength(maskInput)
    /\ maskPc' = "masked"
    /\ UNCHANGED <<maskInput, outlineMasked>>
    /\ UNCHANGED <<commentVars, outlineVars, differVars, pairVars, linkVars, routeVars, mainVars, selectVars, appVars, effectVars, hideVars, contentVars, urlVars, cacheVars>>

MaskNext == StripCommentsPreservingLength \/ MaskLatexCommentsPreservingLength

-----------------------------------------------------------------------------
(* Consumers of the text of a FileEntry: src/src/App.tsx, FileViewer.tsx,
   DiffViewer.tsx, Search *)

\* filename.toLowerCase().split('.').pop()
Extension(filename) ==
    LET dots == {k \in 1..Len(filename) : filename[k] = "."}
    IN  ToLowerCase(SubSeq(filename, IF dots = {} THEN 1 ELSE Max(dots) + 1,
                           Len(filename)))

getFileType(filename) ==
    LET ext == Extension(filename)
    IN  IF ext \in {<<"t", "e", "x">>, <<"l", "a", "t", "e", "x">>, <<"s", "t", "y">>,
                    <<"b", "b", "l">>, <<"c", "l", "s">>, <<"d", "t", "x">>,
                    <<"i", "n", "s">>}
        THEN "tex"
        ELSE IF ext = <<"b", "i", "b">> THEN "bib"
        ELSE IF ext \in {<<"p", "n", "g">>, <<"j", "p", "g">>, <<"j", "p", "e", "g">>,
                         <<"g", "i", "f">>, <<"s", "v", "g">>}
        THEN "image"
        ELSE IF ext = <<"p", "d", "f">> THEN "pdf"
        ELSE IF ext \in {<<"t", "x", "t">>, <<"m", "d">>,
                         <<"r", "e", "a", "d", "m", "e">>}
        THEN "text"
        ELSE "unknown"

\* what the consumers read and write: the FileEntry objects and the count of
\* decompressions of each
Contents == [files |-> contentFiles, reads |-> decompressions]

\* file.zipFile.async('text') or async('string') on the k-th file
Decompress(c, k) == [c EXCEPT !.reads[k] = @ + 1]

\* the cached content is used when there is one; the text decompressed is
\* stored on the FileEntry: the outline effect (App.tsx 670-674), the load
\* effect of FileViewer (422-431), the load of DiffViewer (130-146) and
\* findMainTexDiffPath (208-209)
ReadAndStore(c, k) ==
    IF c.files[k].content # Null THEN c
    ELSE [Decompress(c, k) EXCEPT !.files[k].content = Str(c.files[k].zipText)]

\* file.content !== null ? file.content : await file.zipFile.async('text') of
\* findLabelInFiles: the text decompressed is not stored
ReadCached(c, k) == IF c.files[k].content # Null THEN c ELSE Decompress(c, k)

\* files.filter(file => file.name.toLowerCase().endsWith('.tex')), as the
\* indices of the files kept
TexFileIndices(files) ==
    SelectSeq([k \in 1..Len(files) |-> k], LAMBDA k : IsTexFile(files[k]))

\* the for loop of findMainTexFile (App.tsx 101-110) from the k-th .tex file
\* on: every file it looks at is decompressed, cached or not
RECURSIVE MainTexLoopReads(_, _, _)
MainTexLoopReads(c, texFiles, k) ==
    IF k > Len(texFiles) THEN c
    ELSE IF IncludesWord(c.files[texFiles[k]].zipText, BEGIN_DOCUMENT)
         THEN Decompress(c, texFiles[k])
    ELSE MainTexLoopReads(Decompress(c, texFiles[k]), texFiles, k + 1)

\* the decompressions of findMainTexFile(files): none with fewer than two
\* .tex files
findMainTexFileReads(c) ==
    LET texFiles == TexFileIndices(c.files)
    IN  IF Len(texFiles) < 2 THEN c ELSE MainTexLoopReads(c, texFiles, 1)

\* \label{label}
LabelWord(label) == <<BACKSLASH, "l", "a", "b", "e", "l", "{">> \o label \o <<"}">>

\* the for loop of findLabelInFiles (FileViewer.tsx 32-51) from the k-th
\* .tex file on
RECURSIVE LabelLoopReads(_, _, _, _)
LabelLoopReads(c, texFiles, k, label) ==
    IF k > Len(texFiles) THEN c
    ELSE IF IncludesWord(c.files[texFiles[k]].zipText, LabelWord(label))
         THEN ReadCached(c, texFiles[k])
    ELSE LabelLoopReads(ReadCached(c, texFiles[k]), texFiles, k + 1, label)

findLabelInFilesReads(c, label) ==
    LabelLoopReads(c, TexFileIndices(c.files), 1, label)

\* fileType === 'tex' || fileType === 'bib' || fileType === 'text'
IsSearchable(file) == getFileType(file.path) \in {"tex", "bib", "text"}

\* buildIndex of Search (lines 35-63) from the k-th file on: every text file
\* is decompressed, cached or not
RECURSIVE BuildIndexReads(_, _)
BuildIndexReads(c, k) ==
    IF k > Len(c.files) THEN c
    ELSE BuildIndexReads(IF IsSearchable(c.files[k]) THEN Decompress(c, k) ELSE c,
                         k + 1)

-----------------------------------------------------------------------------
(* Inputs and actions of the consumers *)

\* an archive of three .tex files, the second with \begin{document}, and a
\* text file
ConsumedFiles ==
    <<NewFileEntry(ArchivePaths[4], "preamble"),
      NewFileEntry(ArchivePaths[1], "document"),
      NewFileEntry(ArchivePaths[3], "preamble"),
      NewFileEntry(ArchivePaths[2], "preamble")>>

SearchedLabel == <<"x">>

\* a consumer has run to its end and has brought the files to c
Consumed(c) ==
    /\ \A k \in 1..Len(c.reads) : c.reads[k] <= MaxDecompressions
    /\ contentFiles' = c.files
    /\ decompressions' = c.reads
    /\ UNCHANGED <<commentVars, outlineVars, differVars, pairVars, linkVars, routeVars, mainVars, selectVars, appVars, effectVars, maskVars, hideVars, urlVars, cacheVars>>

\* handleArxivSubmit looks for the main file of the archive it has parsed,
\* before any of the files is shown
DetectMainFile ==
    /\ \A k \in 1..Len(contentFiles) :
          contentFiles[k].content = Null /\ decompressions[k] = 0
    /\ Consumed(findMainTexFileReads(Contents))

\* the outline effect runs for a selected .tex file
LoadOutline ==
    \E k \in 1..Len(contentFiles) :
        /\ getFileType(contentFiles[k].path) = "tex"
        /\ Consumed(ReadAndStore(Contents, k))

\* the load effect of FileViewer runs for a file shown as text
LoadFileContent ==
    \E k \in 1..Len(contentFiles) :
        /\ getFileType(contentFiles[k].path) \notin {"image", "pdf"}
        /\ Consumed(ReadAndStore(Contents, k))

\* the user follows a \ref: findLabelInFiles searches the .tex files
FindLabelInFiles ==
    /\ Len(contentFiles) > 0
    /\ Consumed(findLabelInFilesReads(Contents, SearchedLabel))

\* the search dialog is opened: its mount effect builds the index
BuildSearchIndex ==
    /\ Len(contentFiles) > 0
    /\ Consumed(BuildIndexReads(Contents, 1))

ContentNext ==
    \/ DetectMainFile
    \/ LoadOutline
    \/ LoadFileContent
    \/ FindLabelInFiles
    \/ BuildSearchIndex

-----------------------------------------------------------------------------
(* Object URLs of the viewers: src/src/components/FileViewer.tsx,
   DiffViewer.tsx *)

\* the object URLs are Num(1), Num(2), ... in the order URL.createObjectURL
\* makes them; NoUrl stands for '' and for null
NoUrl == Null

\* a viewer before its first load effect: imageUrl and pdfUrl are the states
\* of FileViewer, oldObjectUrl and newObjectUrl those of DiffViewer
NewViewer(kind) ==
    [kind |-> kind,
     mounted |-> TRUE,
     imageUrl |-> NoUrl,
     pdfUrl |-> NoUrl,
     oldObjectUrl |-> NoUrl,
     newObjectUrl |-> NoUrl]

\* a run of the load effect for a file: hasOld and hasNew tell which sides a
\* DiffViewer was given, cancelled, createdOldUrl and createdNewUrl are the
\* closure variables of its effect. created is bookkeeping: the URLs the run
\* has made
NewLoad(filename, hasOld, hasNew) ==
    [fileType |-> getFileType(filename),
     hasOld |-> hasOld,
     hasNew |-> hasNew,
     pc |-> "loading",
     cancelled |-> FALSE,
     createdOldUrl |-> NoUrl,
     createdNewUrl |-> NoUrl,
     created |-> {}]

\* everything the load effects read and write
Urls == [viewer |-> urlViewer, loads |-> urlLoads, urls |-> objectUrls]

\* the result of the next URL.createObjectURL(blob)
NextUrl(u) == Num(u.urls.created + 1)

createObjectURL(u, i) ==
    [u EXCEPT !.urls.created = @ + 1, !.loads[i].created = @ \cup {NextUrl(u)}]

\* if (url) URL.revokeObjectURL(url)
revokeObjectURL(u, url) ==
    IF url = NoUrl THEN u ELSE [u EXCEPT !.urls.revoked = @ \cup {url}]

\* a setState call of the viewer: React drops it once the component is
\* unmounted
SetUrlState(u, changes) ==
    IF u.viewer.mounted THEN [u EXCEPT !.viewer = Merge(@, changes)] ELSE u

\* the body of the load effect of FileViewer up to its await (lines 379-441)
FileViewerEffect(u, filename) ==
    [SetUrlState(u, [imageUrl |-> NoUrl, pdfUrl |-> NoUrl]) EXCEPT
        !.loads = Append(@, NewLoad(filename, FALSE, TRUE))]

\* the cleanup of the load effect of FileViewer (lines 443-455): each updater
\* revokes the URL it finds in the state
FileViewerCleanup(u) ==
    SetUrlState(revokeObjectURL(revokeObjectURL(u, u.viewer.imageUrl), u.viewer.pdfUrl),
                [imageUrl |-> NoUrl, pdfUrl |-> NoUrl])

\* loadFileContent after its await (lines 395-397, 409-412): there is no
\* cancelled flag
FileViewerLoaded(u, i, ok) ==
    LET settled == [u EXCEPT !.loads[i].pc = "settled"]
    IN  IF ~ok THEN settled
        ELSE IF u.loads[i].fileType = "image"
        THEN SetUrlState(createObjectURL(settled, i), [imageUrl |-> NextUrl(u)])
        ELSE IF u.loads[i].fileType = "pdf"
        THEN SetUrlState(createObjectURL(settled, i), [pdfUrl |-> NextUrl(u)])
        ELSE settled

\* the body of the load effect of DiffViewer up to its await (lines 87-108)
DiffViewerEffect(u, filename, hasOld, hasNew) ==
    [SetUrlState(u, [oldObjectUrl |-> NoUrl, newObjectUrl |-> NoUrl]) EXCEPT
        !.loads = Append(@, NewLoad(filename, hasOld, hasNew))]

\* the cleanup of the load effect of DiffViewer (lines 163-171), of run i
DiffViewerCleanup(u, i) ==
    revokeObjectURL(revokeObjectURL([u EXCEPT !.loads[i].cancelled = TRUE],
                                    u.loads[i].createdOldUrl),
                    u.loads[i].createdNewUrl)

\* load of DiffViewer after its await (lines 110-123)
DiffViewerLoaded(u, i, ok) ==
    LET settled == [u EXCEPT !.loads[i].pc = "settled"]
        load == u.loads[i]
        withOld == IF load.hasOld THEN createObjectURL(settled, i) ELSE settled
        oldUrl == IF load.hasOld THEN NextUrl(settled) ELSE NoUrl
        withNew == IF load.hasNew THEN createObjectURL(withOld, i) ELSE withOld
        newUrl == IF load.hasNew THEN NextUrl(withOld) ELSE NoUrl
    IN  IF ~ok \/ load.fileType \notin {"image", "pdf"} \/ load.cancelled THEN settled
        ELSE [SetUrlState(withNew, [oldObjectUrl |-> oldUrl, newObjectUrl |-> newUrl])
                 EXCEPT !.loads[i].createdOldUrl = oldUrl,
                        !.loads[i].createdNewUrl = newUrl]

\* the cleanup of the effect run the viewer is in, if there is one
CleanedUp(u) ==
    IF Len(u.loads) = 0 THEN u
    ELSE IF u.viewer.kind = "FileViewer" THEN FileViewerCleanup(u)
    ELSE DiffViewerCleanup(u, Len(u.loads))

-----------------------------------------------------------------------------
(* Inputs and actions of the viewers *)

\* an image, a PDF and a text file
ShownNames ==
    { <<"f", ".", "p", "n", "g">>, <<"g", ".", "p", "d", "f">>,
      <<"a", ".", "t", "e", "x">> }

ViewerKinds == {"FileViewer", "DiffViewer"}

CommitUrls(u) ==
    /\ urlViewer' = u.viewer
    /\ urlLoads' = u.loads
    /\ objectUrls' = u.urls
    /\ UNCHANGED <<commentVars, outlineVars, differVars, pairVars, linkVars, routeVars, mainVars, selectVars, appVars, effectVars, maskVars, hideVars, contentVars, cacheVars>>

\* the viewer is given a file (FileViewer) or the two sides of an entry
\* (DiffViewer): the cleanup of the previous run, then the effect
ShowFile ==
    \E filename \in ShownNames, hasOld, hasNew \in BOOLEAN :
        /\ urlViewer.mounted
        /\ Len(urlLoads) < MaxShownFiles
        /\ IF urlViewer.kind = "FileViewer" THEN ~hasOld /\ hasNew
           ELSE hasOld \/ hasNew
        /\ CommitUrls(IF urlViewer.kind = "FileViewer"
                      THEN FileViewerEffect(CleanedUp(Urls), filename)
                      ELSE DiffViewerEffect(CleanedUp(Urls), filename, hasOld, hasNew))

\* the viewer is unmounted: the cleanup of its last run
LeaveViewer ==
    /\ urlViewer.mounted
    /\ Len(urlLoads) > 0
    /\ CommitUrls([CleanedUp(Urls) EXCEPT !.viewer.mounted = FALSE])

\* the decompression a run awaits resolves (ok) or rejects
BlobLoadSettles ==
    \E i \in 1..Len(urlLoads), ok \in BOOLEAN :
        /\ urlLoads[i].pc = "loading"
        /\ CommitUrls(IF urlViewer.kind = "FileViewer"
                      THEN FileViewerLoaded(Urls, i, ok)
                      ELSE DiffViewerLoaded(Urls, i, ok))

UrlNext ==
    \/ ShowFile
    \/ LeaveViewer
    \/ BlobLoadSettles

-----------------------------------------------------------------------------
(* The source cache of the backend: src/api/api.php *)

\* the number of zip files manageCacheSize keeps
CACHE_LIMIT == 100

\* a zip file of the cache directory. used is bookkeeping: the number of the
\* request that built or served it last
CachedFile(mtime, used) == [mtime |-> mtime, used |-> used]

\* the papers with a zip file in the directory
CachedPapers(dir) == {p \in DOMAIN dir : dir[p] # Null}

\* the comparator of usort: negative when a is to be placed before b
NewestFirst(a, b) == b.mtime - a.mtime

\* usort($files, ...) and the indices from CACHE_LIMIT on (lines 336-346), as
\* the sets of papers whose files may stand at those indices: a file with
\* CACHE_LIMIT files placed before it in every sorted order is one of them,
\* one with fewer than CACHE_LIMIT files placed before it in every order is
\* not, and the order of files that compare equal is left open
BeyondLimit(files) ==
    LET papers == CachedPapers(files)
        before(p) == {q \in papers : NewestFirst(files[q], files[p]) < 0}
        notAfter(p) == {q \in papers \ {p} : NewestFirst(files[q], files[p]) <= 0}
        beyond == {p \in papers : Cardinality(before(p)) >= CACHE_LIMIT}
        within == {p \in papers : Cardinality(notAfter(p)) < CACHE_LIMIT}
        open == papers \ (beyond \cup within)
    IN  IF Cardinality(papers) <= CACHE_LIMIT THEN {{}}
        ELSE {beyond \cup some : some \in
                 {S \in SUBSET open :
                     Cardinality(beyond \cup S) = Cardinality(papers) - CACHE_LIMIT}}

\* everything a request reads and writes. One PHP process serves one
\* request, and the processes share the cache directory
Cache ==
    [dir |-> cacheDir, clock |-> cacheClock, requests |-> cacheRequests,
     run |-> cacheRun]

\* no manageCacheSize has just returned
NoRun == [managed |-> FALSE, request |-> 0, deleted |-> {}]

\* a request for the source of paperId, at the position pc of
\* getOrBuildSourceZip; files is $files of its manageCacheSize
CacheRequest(paperId, pc) == [paperId |-> paperId, pc |-> pc, files |-> <<>>]

\* getOrBuildSourceZip, lines 441-445: the cache hit touches the file
touchCached(c, paperId) ==
    [c EXCEPT !.dir[paperId] = CachedFile(c.clock, Len(c.requests) + 1),
              !.requests = Append(@, CacheRequest(paperId, "done")),
              !.run = NoRun]

\* getOrBuildSourceZip, lines 447-466 and the finally block: the download,
\* the extraction or the conversion fails and nothing is cached
buildFails(c, paperId) ==
    [c EXCEPT !.requests = Append(@, CacheRequest(paperId, "done")),
              !.run = NoRun]

\* getOrBuildSourceZip, lines 447-470: the zip file is built and renamed
\* into the cache
renameIntoCache(c, paperId) ==
    [c EXCEPT !.dir[paperId] = CachedFile(c.clock, Len(c.requests) + 1),
              !.requests = Append(@, CacheRequest(paperId, "renamed")),
              !.run = NoRun]

\* manageCacheSize, lines 319-334: readdir and filemtime fill $files
readCacheDir(c, r) ==
    [c EXCEPT !.requests[r].pc = "scanned",
              !.requests[r].files = c.dir,
              !.run = NoRun]

\* manageCacheSize, lines 336-346: $files is sorted and the files beyond the
\* limit, the papers in beyond, are unlinked; then getOrBuildSourceZip
\* returns
unlinkBeyondLimit(c, r, beyond) ==
    [c EXCEPT !.dir = [p \in DOMAIN c.dir |-> IF p \in beyond THEN Null ELSE c.dir[p]],
              !.requests[r].pc = "done",
              !.run = [managed |-> TRUE, request |-> r,
                       deleted |-> {[paper |-> p, mtime |-> c.dir[p].mtime,
                                     used |-> c.dir[p].used] :
                                       p \in beyond \cap CachedPapers(c.dir)}]]

-----------------------------------------------------------------------------
(* Inputs and actions of the source cache *)

\* the papers requested: the three whose files are the oldest of the cache
\* and MaxNewPapers papers not in it
RequestedPapers == 1..3 \cup (CACHE_LIMIT + 1)..(CACHE_LIMIT + MaxNewPapers)

\* a full cache built by CACHE_LIMIT earlier requests, perSecond of them in
\* each second; the earlier requests are numbered up to 0
FullCache(perSecond) ==
    [p \in 1..(CACHE_LIMIT + MaxNewPapers) |->
        IF p <= CACHE_LIMIT
        THEN CachedFile((p + perSecond - 1) \div perSecond, p - CACHE_LIMIT)
        ELSE Null]

CommitCache(c) ==
    /\ cacheDir' = c.dir
    /\ cacheClock' = c.clock
    /\ cacheRequests' = c.requests
    /\ cacheRun' = c.run
    /\ UNCHANGED <<commentVars, outlineVars, differVars, pairVars, linkVars, routeVars, mainVars, selectVars, appVars, effectVars, maskVars, hideVars, contentVars, urlVars>>

\* a request for a cached paper is served from the cache
ServeCached ==
    \E paperId \in RequestedPapers :
        /\ Len(cacheRequests) < MaxCacheRequests
        /\ cacheDir[paperId] # Null
        /\ CommitCache(touchCached(Cache, paperId))

\* a request for a paper that is not cached fails
BuildFails ==
    \E paperId \in RequestedPapers :
        /\ Len(cacheRequests) < MaxCacheRequests
        /\ cacheDir[paperId] = Null
        /\ CommitCache(buildFails(Cache, paperId))

\* a request for a paper that is not cached builds its zip file
BuildSourceZip ==
    \E paperId \in RequestedPapers :
        /\ Len(cacheRequests) < MaxCacheRequests
        /\ cacheDir[paperId] = Null
        /\ CommitCache(renameIntoCache(Cache, paperId))

\* manageCacheSize of a request reads the directory
ReadCacheDir ==
    \E r \in 1..Len(cacheRequests) :
        /\ cacheRequests[r].pc = "renamed"
        /\ CommitCache(readCacheDir(Cache, r))

\* manageCacheSize of a request deletes and returns
UnlinkBeyondLimit ==
    \E r \in 1..Len(cacheRequests) :
        /\ cacheRequests[r].pc = "scanned"
        /\ \E beyond \in BeyondLimit(cacheRequests[r].files) :
               CommitCache(unlinkBeyondLimit(Cache, r, beyond))

\* a second passes
Tick ==
    /\ cacheClock < CACHE_LIMIT + MaxCacheRequests
    /\ CommitCache([Cache EXCEPT !.clock = @ + 1])

CacheNext ==
    \/ ServeCached
    \/ BuildFails
    \/ BuildSourceZip
    \/ ReadCacheDir
    \/ UnlinkBeyondLimit
    \/ Tick

-----------------------------------------------------------------------------
(* Specifications *)

\* a text is handed to the comment transformer; nothing else runs
InitComments ==
    /\ text \in CommentTexts
    /\ lineTransforms = <<>>
    /\ strippedText = <<>>
    /\ restrippedText = <<>>
    /\ mapping = <<>>
    /\ commentPc = "input"
    /\ textContent = <<>>
    /\ outline = [lineCount |-> 0, entries |-> <<>>]
    /\ matchIndices = <<>>
    /\ outlinePc = "idle"
    /\ oldEntries = <<>>
    /\ newEntries = <<>>
    /\ unreadableFiles = {}
    /\ diffResult = [state |-> "pending", entries |-> <<>>]
    /\ differPc = "idle"
    /\ versions = <<>>
    /\ preferredFrom = Undefined
    /\ preferredTo = Undefined
    /\ selectedPair = [fromVersion |-> Null, toVersion |-> Null]
    /\ pairPc = "idle"
    /\ linkText = <<>>
    /\ linkMode = "plain"
    /\ linkSpans = <<>>
    /\ linkPc = "idle"
    /\ routeInput = <<>>
    /\ routeArxivId = Null
    /\ routeMode = "browse"
    /\ routeFromVersion = 0
    /\ routeToVersion = 0
    /\ routeFilePath = Undefined
    /\ routeUrl = <<>>
    /\ routeState = Null
    /\ routePc = "idle"
    /\ archiveFiles = <<>>
    /\ mainTexFile = Null
    /\ mainPc = "idle"
    /\ builtEntries = <<>>
    /\ preferredPath = Undefined
    /\ nextSelectedPath = Null
    /\ selectPc = "idle"
    /\ app = DefaultAppState
    /\ history = [entries |-> <<>>, index |-> 0]
    /\ requests = <<>>
    /\ sourceFetches = 0
    /\ userActions = 0
    /\ heapFiles = <<>>
    /\ view = DefaultViewState
    /\ effects = <<>>
    /\ outlines = <<>>
    /\ maskInput = <<>>
    /\ outlineMasked = <<>>
    /\ linkMasked = <<>>
    /\ maskPc = "idle"
    /\ visibleLineMap = <<>>
    /\ hiddenOutline = <<>>
    /\ contentFiles = <<>>
    /\ decompressions = <<>>
    /\ urlViewer = <<>>
    /\ urlLoads = <<>>
    /\ objectUrls = <<>>
    /\ cacheDir = <<>>
    /\ cacheClock = 0
    /\ cacheRequests = <<>>
    /\ cacheRun = <<>>

\* a content is handed to the outline extractor; nothing else runs
InitOutline ==
    /\ text = <<>>
    /\ lineTransforms = <<>>
    /\ strippedText = <<>>
    /\ restrippedText = <<>>
    /\ mapping = <<>>
    /\ commentPc = "idle"
    /\ textContent \in OutlineContents
    /\ outline = [lineCount |-> 0, entries |-> <<>>]
    /\ matchIndices = <<>>
    /\ outlinePc = "input"
    /\ oldEntries = <<>>
    /\ newEntries = <<>>
    /\ unreadableFiles = {}
    /\ diffResult = [state |-> "pending", entries |-> <<>>]
    /\ differPc = "idle"
    /\ versions = <<>>
    /\ preferredFrom = Undefined
    /\ preferredTo = Undefined
    /\ selectedPair = [fromVersion |-> Null, toVersion |-> Null]
    /\ pairPc = "idle"
    /\ linkText = <<>>
    /\ linkMode = "plain"
    /\ linkSpans = <<>>
    /\ linkPc = "idle"
    /\ routeInput = <<>>
    /\ routeArxivId = Null
    /\ routeMode = "browse"
    /\ routeFromVersion = 0
    /\ routeToVersion = 0
    /\ routeFilePath = Undefined
    /\ routeUrl = <<>>
    /\ routeState = Null
    /\ routePc = "idle"
    /\ archiveFiles = <<>>
    /\ mainTexFile = Null
    /\ mainPc = "idle"
    /\ builtEntries = <<>>
    /\ preferredPath = Undefined
    /\ nextSelectedPath = Null
    /\ selectPc = "idle"
    /\ app = DefaultAppState
    /\ history = [entries |-> <<>>, index |-> 0]
    /\ requests = <<>>
    /\ sourceFetches = 0
    /\ userActions = 0
    /\ heapFiles = <<>>
    /\ view = DefaultViewState
    /\ effects = <<>>
    /\ outlines = <<>>
    /\ maskInput = <<>>
    /\ outlineMasked = <<>>
    /\ linkMasked = <<>>
    /\ maskPc = "idle"
    /\ visibleLineMap = <<>>
    /\ hiddenOutline = <<>>
    /\ contentFiles = <<>>
    /\ decompressions = <<>>
    /\ urlViewer = <<>>
    /\ urlLoads = <<>>
    /\ objectUrls = <<>>
    /\ cacheDir = <<>>
    /\ cacheClock = 0
    /\ cacheRequests = <<>>
    /\ cacheRun = <<>>

\* two archives are handed to the differ; nothing else runs
InitDiffer ==
    /\ text = <<>>
    /\ lineTransforms = <<>>
    /\ strippedText = <<>>
    /\ restrippedText = <<>>
    /\ mapping = <<>>
    /\ commentPc = "idle"
    /\ textContent = <<>>
    /\ outline = [lineCount |-> 0, entries |-> <<>>]
    /\ matchIndices = <<>>
    /\ outlinePc = "idle"
    /\ oldEntries \in FileLists
    /\ newEntries \in FileLists
    /\ unreadableFiles = {}
    /\ diffResult = [state |-> "pending", entries |-> <<>>]
    /\ differPc = "input"
    /\ versions = <<>>
    /\ preferredFrom = Undefined
    /\ preferredTo = Undefined
    /\ selectedPair = [fromVersion |-> Null, toVersion |-> Null]
    /\ pairPc = "idle"
    /\ linkText = <<>>
    /\ linkMode = "plain"
    /\ linkSpans = <<>>
    /\ linkPc = "idle"
    /\ routeInput = <<>>
    /\ routeArxivId = Null
    /\ routeMode = "browse"
    /\ routeFromVersion = 0
    /\ routeToVersion = 0
    /\ routeFilePath = Undefined
    /\ routeUrl = <<>>
    /\ routeState = Null
    /\ routePc = "idle"
    /\ archiveFiles = <<>>
    /\ mainTexFile = Null
    /\ mainPc = "idle"
    /\ builtEntries = <<>>
    /\ preferredPath = Undefined
    /\ nextSelectedPath = Null
    /\ selectPc = "idle"
    /\ app = DefaultAppState
    /\ history = [entries |-> <<>>, index |-> 0]
    /\ requests = <<>>
    /\ sourceFetches = 0
    /\ userActions = 0
    /\ heapFiles = <<>>
    /\ view = DefaultViewState
    /\ effects = <<>>
    /\ outlines = <<>>
    /\ maskInput = <<>>
    /\ outlineMasked = <<>>
    /\ linkMasked = <<>>
    /\ maskPc = "idle"
    /\ visibleLineMap = <<>>
    /\ hiddenOutline = <<>>
    /\ contentFiles = <<>>
    /\ decompressions = <<>>
    /\ urlViewer = <<>>
    /\ urlLoads = <<>>
    /\ objectUrls = <<>>
    /\ cacheDir = <<>>
    /\ cacheClock = 0
    /\ cacheRequests = <<>>
    /\ cacheRun = <<>>

\* a version list and two preferences are handed to the pair selection
InitPair ==
    /\ text = <<>>
    /\ lineTransforms = <<>>
    /\ strippedText = <<>>
    /\ restrippedText = <<>>
    /\ mapping = <<>>
    /\ commentPc = "idle"
    /\ textContent = <<>>
    /\ outline = [lineCount |-> 0, entries |-> <<>>]
    /\ matchIndices = <<>>
    /\ outlinePc = "idle"
    /\ oldEntries = <<>>
    /\ newEntries = <<>>
    /\ unreadableFiles = {}
    /\ diffResult = [state |-> "pending", entries |-> <<>>]
    /\ differPc = "idle"
    /\ versions \in VersionLists
    /\ preferredFrom \in PreferredVersions
    /\ preferredTo \in PreferredVersions
    /\ selectedPair = [fromVersion |-> Null, toVersion |-> Null]
    /\ pairPc = "input"
    /\ linkText = <<>>
    /\ linkMode = "plain"
    /\ linkSpans = <<>>
    /\ linkPc = "idle"
    /\ routeInput = <<>>
    /\ routeArxivId = Null
    /\ routeMode = "browse"
    /\ routeFromVersion = 0
    /\ routeToVersion = 0
    /\ routeFilePath = Undefined
    /\ routeUrl = <<>>
    /\ routeState = Null
    /\ routePc = "idle"
    /\ archiveFiles = <<>>
    /\ mainTexFile = Null
    /\ mainPc = "idle"
    /\ builtEntries = <<>>
    /\ preferredPath = Undefined
    /\ nextSelectedPath = Null
    /\ selectPc = "idle"
    /\ app = DefaultAppState
    /\ history = [entries |-> <<>>, index |-> 0]
    /\ requests = <<>>
    /\ sourceFetches = 0
    /\ userActions = 0
    /\ heapFiles = <<>>
    /\ view = DefaultViewState
    /\ effects = <<>>
    /\ outlines = <<>>
    /\ maskInput = <<>>
    /\ outlineMasked = <<>>
    /\ linkMasked = <<>>
    /\ maskPc = "idle"
    /\ visibleLineMap = <<>>
    /\ hiddenOutline = <<>>
    /\ contentFiles = <<>>
    /\ decompressions = <<>>
    /\ urlViewer = <<>>
    /\ urlLoads = <<>>
    /\ objectUrls = <<>>
    /\ cacheDir = <<>>
    /\ cacheClock = 0
    /\ cacheRequests = <<>>
    /\ cacheRun = <<>>

\* a text and a mode are handed to the link detector; nothing else runs
InitLinks ==
    /\ text = <<>>
    /\ lineTransforms = <<>>
    /\ strippedText = <<>>
    /\ restrippedText = <<>>
    /\ mapping = <<>>
    /\ commentPc = "idle"
    /\ textContent = <<>>
    /\ outline = [lineCount |-> 0, entries |-> <<>>]
    /\ matchIndices = <<>>
    /\ outlinePc = "idle"
    /\ oldEntries = <<>>
    /\ newEntries = <<>>
    /\ unreadableFiles = {}
    /\ diffResult = [state |-> "pending", entries |-> <<>>]
    /\ differPc = "idle"
    /\ versions = <<>>
    /\ preferredFrom = Undefined
    /\ preferredTo = Undefined
    /\ selectedPair = [fromVersion |-> Null, toVersion |-> Null]
    /\ pairPc = "idle"
    /\ linkText \in LinkTexts
    /\ linkMode \in CodeViewerModes
    /\ linkSpans = <<>>
    /\ linkPc = "input"
    /\ routeInput = <<>>
    /\ routeArxivId = Null
    /\ routeMode = "browse"
    /\ routeFromVersion = 0
    /\ routeToVersion = 0
    /\ routeFilePath = Undefined
    /\ routeUrl = <<>>
    /\ routeState = Null
    /\ routePc = "idle"
    /\ archiveFiles = <<>>
    /\ mainTexFile = Null
    /\ mainPc = "idle"
    /\ builtEntries = <<>>
    /\ preferredPath = Undefined
    /\ nextSelectedPath = Null
    /\ selectPc = "idle"
    /\ app = DefaultAppState
    /\ history = [entries |-> <<>>, index |-> 0]
    /\ requests = <<>>
    /\ sourceFetches = 0
    /\ userActions = 0
    /\ heapFiles = <<>>
    /\ view = DefaultViewState
    /\ effects = <<>>
    /\ outlines = <<>>
    /\ maskInput = <<>>
    /\ outlineMasked = <<>>
    /\ linkMasked = <<>>
    /\ maskPc = "idle"
    /\ visibleLineMap = <<>>
    /\ hiddenOutline = <<>>
    /\ contentFiles = <<>>
    /\ decompressions = <<>>
    /\ urlViewer = <<>>
    /\ urlLoads = <<>>
    /\ objectUrls = <<>>
    /\ cacheDir = <<>>
    /\ cacheClock = 0
    /\ cacheRequests = <<>>
    /\ cacheRun = <<>>

\* a text is handed to extractArxivId and the id it returns to the URL builders
InitRoute ==
    /\ text = <<>>
    /\ lineTransforms = <<>>
    /\ strippedText = <<>>
    /\ restrippedText = <<>>
    /\ mapping = <<>>
    /\ commentPc = "idle"
    /\ textContent = <<>>
    /\ outline = [lineCount |-> 0, entries |-> <<>>]
    /\ matchIndices = <<>>
    /\ outlinePc = "idle"
    /\ oldEntries = <<>>
    /\ newEntries = <<>>
    /\ unreadableFiles = {}
    /\ diffResult = [state |-> "pending", entries |-> <<>>]
    /\ differPc = "idle"
    /\ versions = <<>>
    /\ preferredFrom = Undefined
    /\ preferredTo = Undefined
    /\ selectedPair = [fromVersion |-> Null, toVersion |-> Null]
    /\ pairPc = "idle"
    /\ linkText = <<>>
    /\ linkMode = "plain"
    /\ linkSpans = <<>>
    /\ linkPc = "idle"
    /\ routeInput \in RouteInputs
    /\ routeArxivId = Null
    /\ routeMode = "browse"
    /\ routeFromVersion = 0
    /\ routeToVersion = 0
    /\ routeFilePath = Undefined
    /\ routeUrl = <<>>
    /\ routeState = Null
    /\ routePc = "input"
    /\ archiveFiles = <<>>
    /\ mainTexFile = Null
    /\ mainPc = "idle"
    /\ builtEntries = <<>>
    /\ preferredPath = Undefined
    /\ nextSelectedPath = Null
    /\ selectPc = "idle"
    /\ app = DefaultAppState
    /\ history = [entries |-> <<>>, index |-> 0]
    /\ requests = <<>>
    /\ sourceFetches = 0
    /\ userActions = 0
    /\ heapFiles = <<>>
    /\ view = DefaultViewState
    /\ effects = <<>>
    /\ outlines = <<>>
    /\ maskInput = <<>>
    /\ outlineMasked = <<>>
    /\ linkMasked = <<>>
    /\ maskPc = "idle"
    /\ visibleLineMap = <<>>
    /\ hiddenOutline = <<>>
    /\ contentFiles = <<>>
    /\ decompressions = <<>>
    /\ urlViewer = <<>>
    /\ urlLoads = <<>>
    /\ objectUrls = <<>>
    /\ cacheDir = <<>>
    /\ cacheClock = 0
    /\ cacheRequests = <<>>
    /\ cacheRun = <<>>

\* an archive is handed to findMainTexFile; nothing else runs
InitMainTex ==
    /\ text = <<>>
    /\ lineTransforms = <<>>
    /\ strippedText = <<>>
    /\ restrippedText = <<>>
    /\ mapping = <<>>
    /\ commentPc = "idle"
    /\ textContent = <<>>
    /\ outline = [lineCount |-> 0, entries |-> <<>>]
    /\ matchIndices = <<>>
    /\ outlinePc = "idle"
    /\ oldEntries = <<>>
    /\ newEntries = <<>>
    /\ unreadableFiles = {}
    /\ diffResult = [state |-> "pending", entries |-> <<>>]
    /\ differPc = "idle"
    /\ versions = <<>>
    /\ preferredFrom = Undefined
    /\ preferredTo = Undefined
    /\ selectedPair = [fromVersion |-> Null, toVersion |-> Null]
    /\ pairPc = "idle"
    /\ linkText = <<>>
    /\ linkMode = "plain"
    /\ linkSpans = <<>>
    /\ linkPc = "idle"
    /\ routeInput = <<>>
    /\ routeArxivId = Null
    /\ routeMode = "browse"
    /\ routeFromVersion = 0
    /\ routeToVersion = 0
    /\ routeFilePath = Undefined
    /\ routeUrl = <<>>
    /\ routeState = Null
    /\ routePc = "idle"
    /\ archiveFiles \in ArchiveFileLists
    /\ mainTexFile = Null
    /\ mainPc = "input"
    /\ builtEntries = <<>>
    /\ preferredPath = Undefined
    /\ nextSelectedPath = Null
    /\ selectPc = "idle"
    /\ app = DefaultAppState
    /\ history = [entries |-> <<>>, index |-> 0]
    /\ requests = <<>>
    /\ sourceFetches = 0
    /\ userActions = 0
    /\ heapFiles = <<>>
    /\ view = DefaultViewState
    /\ effects = <<>>
    /\ outlines = <<>>
    /\ maskInput = <<>>
    /\ outlineMasked = <<>>
    /\ linkMasked = <<>>
    /\ maskPc = "idle"
    /\ visibleLineMap = <<>>
    /\ hiddenOutline = <<>>
    /\ contentFiles = <<>>
    /\ decompressions = <<>>
    /\ urlViewer = <<>>
    /\ urlLoads = <<>>
    /\ objectUrls = <<>>
    /\ cacheDir = <<>>
    /\ cacheClock = 0
    /\ cacheRequests = <<>>
    /\ cacheRun = <<>>

\* loadDiffPair has built the entries of a comparison; nothing else runs
InitSelect ==
    /\ text = <<>>
    /\ lineTransforms = <<>>
    /\ strippedText = <<>>
    /\ restrippedText = <<>>
    /\ mapping = <<>>
    /\ commentPc = "idle"
    /\ textContent = <<>>
    /\ outline = [lineCount |-> 0, entries |-> <<>>]
    /\ matchIndices = <<>>
    /\ outlinePc = "idle"
    /\ oldEntries = <<>>
    /\ newEntries = <<>>
    /\ unreadableFiles = {}
    /\ diffResult = [state |-> "pending", entries |-> <<>>]
    /\ differPc = "idle"
    /\ versions = <<>>
    /\ preferredFrom = Undefined
    /\ preferredTo = Undefined
    /\ selectedPair = [fromVersion |-> Null, toVersion |-> Null]
    /\ pairPc = "idle"
    /\ linkText = <<>>
    /\ linkMode = "plain"
    /\ linkSpans = <<>>
    /\ linkPc = "idle"
    /\ routeInput = <<>>
    /\ routeArxivId = Null
    /\ routeMode = "browse"
    /\ routeFromVersion = 0
    /\ routeToVersion = 0
    /\ routeFilePath = Undefined
    /\ routeUrl = <<>>
    /\ routeState = Null
    /\ routePc = "idle"
    /\ archiveFiles = <<>>
    /\ mainTexFile = Null
    /\ mainPc = "idle"
    /\ builtEntries \in BuiltEntryLists
    /\ preferredPath \in PreferredPaths
    /\ nextSelectedPath = Null
    /\ selectPc = "input"
    /\ app = DefaultAppState
    /\ history = [entries |-> <<>>, index |-> 0]
    /\ requests = <<>>
    /\ sourceFetches = 0
    /\ userActions = 0
    /\ heapFiles = <<>>
    /\ view = DefaultViewState
    /\ effects = <<>>
    /\ outlines = <<>>
    /\ maskInput = <<>>
    /\ outlineMasked = <<>>
    /\ linkMasked = <<>>
    /\ maskPc = "idle"
    /\ visibleLineMap = <<>>
    /\ hiddenOutline = <<>>
    /\ contentFiles = <<>>
    /\ decompressions = <<>>
    /\ urlViewer = <<>>
    /\ urlLoads = <<>>
    /\ objectUrls = <<>>
    /\ cacheDir = <<>>
    /\ cacheClock = 0
    /\ cacheRequests = <<>>
    /\ cacheRun = <<>>

\* the App component is mounted on the home page; no request has started
InitApp ==
    /\ text = <<>>
    /\ lineTransforms = <<>>
    /\ strippedText = <<>>
    /\ restrippedText = <<>>
    /\ mapping = <<>>
    /\ commentPc = "idle"
    /\ textContent = <<>>
    /\ outline = [lineCount |-> 0, entries |-> <<>>]
    /\ matchIndices = <<>>
    /\ outlinePc = "idle"
    /\ oldEntries = <<>>
    /\ newEntries = <<>>
    /\ unreadableFiles = {}
    /\ diffResult = [state |-> "pending", entries |-> <<>>]
    /\ differPc = "idle"
    /\ versions = <<>>
    /\ preferredFrom = Undefined
    /\ preferredTo = Undefined
    /\ selectedPair = [fromVersion |-> Null, toVersion |-> Null]
    /\ pairPc = "idle"
    /\ linkText = <<>>
    /\ linkMode = "plain"
    /\ linkSpans = <<>>
    /\ linkPc = "idle"
    /\ routeInput = <<>>
    /\ routeArxivId = Null
    /\ routeMode = "browse"
    /\ routeFromVersion = 0
    /\ routeToVersion = 0
    /\ routeFilePath = Undefined
    /\ routeUrl = <<>>
    /\ routeState = Null
    /\ routePc = "idle"
    /\ archiveFiles = <<>>
    /\ mainTexFile = Null
    /\ mainPc = "idle"
    /\ builtEntries = <<>>
    /\ preferredPath = Undefined
    /\ nextSelectedPath = Null
    /\ selectPc = "idle"
    /\ history = [entries |-> <<BASE_URL>>, index |-> 1]
    /\ app = mountEffect(Constructed(history)).app
    /\ requests = <<>>
    /\ sourceFetches = 0
    /\ userActions = 0
    /\ heapFiles = <<>>
    /\ view = DefaultViewState
    /\ effects = <<>>
    /\ outlines = <<>>
    /\ maskInput = <<>>
    /\ outlineMasked = <<>>
    /\ linkMasked = <<>>
    /\ maskPc = "idle"
    /\ visibleLineMap = <<>>
    /\ hiddenOutline = <<>>
    /\ contentFiles = <<>>
    /\ decompressions = <<>>
    /\ urlViewer = <<>>
    /\ urlLoads = <<>>
    /\ objectUrls = <<>>
    /\ cacheDir = <<>>
    /\ cacheClock = 0
    /\ cacheRequests = <<>>
    /\ cacheRun = <<>>

\* the App component has run its mount effect in the session history the
\* page is opened in; two user actions have led there
InitOpened ==
    /\ text = <<>>
    /\ lineTransforms = <<>>
    /\ strippedText = <<>>
    /\ restrippedText = <<>>
    /\ mapping = <<>>
    /\ commentPc = "idle"
    /\ textContent = <<>>
    /\ outline = [lineCount |-> 0, entries |-> <<>>]
    /\ matchIndices = <<>>
    /\ outlinePc = "idle"
    /\ oldEntries = <<>>
    /\ newEntries = <<>>
    /\ unreadableFiles = {}
    /\ diffResult = [state |-> "pending", entries |-> <<>>]
    /\ differPc = "idle"
    /\ versions = <<>>
    /\ preferredFrom = Undefined
    /\ preferredTo = Undefined
    /\ selectedPair = [fromVersion |-> Null, toVersion |-> Null]
    /\ pairPc = "idle"
    /\ linkText = <<>>
    /\ linkMode = "plain"
    /\ linkSpans = <<>>
    /\ linkPc = "idle"
    /\ routeInput = <<>>
    /\ routeArxivId = Null
    /\ routeMode = "browse"
    /\ routeFromVersion = 0
    /\ routeToVersion = 0
    /\ routeFilePath = Undefined
    /\ routeUrl = <<>>
    /\ routeState = Null
    /\ routePc = "idle"
    /\ archiveFiles = <<>>
    /\ mainTexFile = Null
    /\ mainPc = "idle"
    /\ builtEntries = <<>>
    /\ preferredPath = Undefined
    /\ nextSelectedPath = Null
    /\ selectPc = "idle"
    /\ history \in OpenedHistories
    /\ app = mountEffect(Constructed(history)).app
    /\ requests = mountEffect(Constructed(history)).requests
    /\ sourceFetches = mountEffect(Constructed(history)).sourceFetches
    /\ userActions = 2
    /\ heapFiles = <<>>
    /\ view = DefaultViewState
    /\ effects = <<>>
    /\ outlines = <<>>
    /\ maskInput = <<>>
    /\ outlineMasked = <<>>
    /\ linkMasked = <<>>
    /\ maskPc = "idle"
    /\ visibleLineMap = <<>>
    /\ hiddenOutline = <<>>
    /\ contentFiles = <<>>
    /\ decompressions = <<>>
    /\ urlViewer = <<>>
    /\ urlLoads = <<>>
    /\ objectUrls = <<>>
    /\ cacheDir = <<>>
    /\ cacheClock = 0
    /\ cacheRequests = <<>>
    /\ cacheRun = <<>>

\* an archive has been parsed: no content is cached, nothing was decompressed
InitContent ==
    /\ text = <<>>
    /\ lineTransforms = <<>>
    /\ strippedText = <<>>
    /\ restrippedText = <<>>
    /\ mapping = <<>>
    /\ commentPc = "idle"
    /\ textContent = <<>>
    /\ outline = [lineCount |-> 0, entries |-> <<>>]
    /\ matchIndices = <<>>
    /\ outlinePc = "idle"
    /\ oldEntries = <<>>
    /\ newEntries = <<>>
    /\ unreadableFiles = {}
    /\ diffResult = [state |-> "pending", entries |-> <<>>]
    /\ differPc = "idle"
    /\ versions = <<>>
    /\ preferredFrom = Undefined
    /\ preferredTo = Undefined
    /\ selectedPair = [fromVersion |-> Null, toVersion |-> Null]
    /\ pairPc = "idle"
    /\ linkText = <<>>
    /\ linkMode = "plain"
    /\ linkSpans = <<>>
    /\ linkPc = "idle"
    /\ routeInput = <<>>
    /\ routeArxivId = Null
    /\ routeMode = "browse"
    /\ routeFromVersion = 0
    /\ routeToVersion = 0
    /\ routeFilePath = Undefined
    /\ routeUrl = <<>>
    /\ routeState = Null
    /\ routePc = "idle"
    /\ archiveFiles = <<>>
    /\ mainTexFile = Null
    /\ mainPc = "idle"
    /\ builtEntries = <<>>
    /\ preferredPath = Undefined
    /\ nextSelectedPath = Null
    /\ selectPc = "idle"
    /\ history = [entries |-> <<>>, index |-> 0]
    /\ app = DefaultAppState
    /\ requests = <<>>
    /\ sourceFetches = 0
    /\ userActions = 0
    /\ heapFiles = <<>>
    /\ view = DefaultViewState
    /\ effects = <<>>
    /\ outlines = <<>>
    /\ maskInput = <<>>
    /\ outlineMasked = <<>>
    /\ linkMasked = <<>>
    /\ maskPc = "idle"
    /\ visibleLineMap = <<>>
    /\ hiddenOutline = <<>>
    /\ contentFiles = ConsumedFiles
    /\ decompressions = [k \in 1..Len(ConsumedFiles) |-> 0]
    /\ urlViewer = <<>>
    /\ urlLoads = <<>>
    /\ objectUrls = <<>>
    /\ cacheDir = <<>>
    /\ cacheClock = 0
    /\ cacheRequests = <<>>
    /\ cacheRun = <<>>

\* a viewer is mounted and has not yet been given a file
InitUrls ==
    /\ text = <<>>
    /\ lineTransforms = <<>>
    /\ strippedText = <<>>
    /\ restrippedText = <<>>
    /\ mapping = <<>>
    /\ commentPc = "idle"
    /\ textContent = <<>>
    /\ outline = [lineCount |-> 0, entries |-> <<>>]
    /\ matchIndices = <<>>
    /\ outlinePc = "idle"
    /\ oldEntries = <<>>
    /\ newEntries = <<>>
    /\ unreadableFiles = {}
    /\ diffResult = [state |-> "pending", entries |-> <<>>]
    /\ differPc = "idle"
    /\ versions = <<>>
    /\ preferredFrom = Undefined
    /\ preferredTo = Undefined
    /\ selectedPair = [fromVersion |-> Null, toVersion |-> Null]
    /\ pairPc = "idle"
    /\ linkText = <<>>
    /\ linkMode = "plain"
    /\ linkSpans = <<>>
    /\ linkPc = "idle"
    /\ routeInput = <<>>
    /\ routeArxivId = Null
    /\ routeMode = "browse"
    /\ routeFromVersion = 0
    /\ routeToVersion = 0
    /\ routeFilePath = Undefined
    /\ routeUrl = <<>>
    /\ routeState = Null
    /\ routePc = "idle"
    /\ archiveFiles = <<>>
    /\ mainTexFile = Null
    /\ mainPc = "idle"
    /\ builtEntries = <<>>
    /\ preferredPath = Undefined
    /\ nextSelectedPath = Null
    /\ selectPc = "idle"
    /\ history = [entries |-> <<>>, index |-> 0]
    /\ app = DefaultAppState
    /\ requests = <<>>
    /\ sourceFetches = 0
    /\ userActions = 0
    /\ heapFiles = <<>>
    /\ view = DefaultViewState
    /\ effects = <<>>
    /\ outlines = <<>>
    /\ maskInput = <<>>
    /\ outlineMasked = <<>>
    /\ linkMasked = <<>>
    /\ maskPc = "idle"
    /\ visibleLineMap = <<>>
    /\ hiddenOutline = <<>>
    /\ contentFiles = <<>>
    /\ decompressions = <<>>
    /\ urlViewer \in {NewViewer(kind) : kind \in ViewerKinds}
    /\ urlLoads = <<>>
    /\ objectUrls = [created |-> 0, revoked |-> {}]
    /\ cacheDir = <<>>
    /\ cacheClock = 0
    /\ cacheRequests = <<>>
    /\ cacheRun = <<>>

\* the cache is full: CACHE_LIMIT files, built one or two in a second
InitCache ==
    /\ text = <<>>
    /\ lineTransforms = <<>>
    /\ strippedText = <<>>
    /\ restrippedText = <<>>
    /\ mapping = <<>>
    /\ commentPc = "idle"
    /\ textContent = <<>>
    /\ outline = [lineCount |-> 0, entries |-> <<>>]
    /\ matchIndices = <<>>
    /\ outlinePc = "idle"
    /\ oldEntries = <<>>
    /\ newEntries = <<>>
    /\ unreadableFiles = {}
    /\ diffResult = [state |-> "pending", entries |-> <<>>]
    /\ differPc = "idle"
    /\ versions = <<>>
    /\ preferredFrom = Undefined
    /\ preferredTo = Undefined
    /\ selectedPair = [fromVersion |-> Null, toVersion |-> Null]
    /\ pairPc = "idle"
    /\ linkText = <<>>
    /\ linkMode = "plain"
    /\ linkSpans = <<>>
    /\ linkPc = "idle"
    /\ routeInput = <<>>
    /\ routeArxivId = Null
    /\ routeMode = "browse"
    /\ routeFromVersion = 0
    /\ routeToVersion = 0
    /\ routeFilePath = Undefined
    /\ routeUrl = <<>>
    /\ routeState = Null
    /\ routePc = "idle"
    /\ archiveFiles = <<>>
    /\ mainTexFile = Null
    /\ mainPc = "idle"
    /\ builtEntries = <<>>
    /\ preferredPath = Undefined
    /\ nextSelectedPath = Null
    /\ selectPc = "idle"
    /\ history = [entries |-> <<>>, index |-> 0]
    /\ app = DefaultAppState
    /\ requests = <<>>
    /\ sourceFetches = 0
    /\ userActions = 0
    /\ heapFiles = <<>>
    /\ view = DefaultViewState
    /\ effects = <<>>
    /\ outlines = <<>>
    /\ maskInput = <<>>
    /\ outlineMasked = <<>>
    /\ linkMasked = <<>>
    /\ maskPc = "idle"
    /\ visibleLineMap = <<>>
    /\ hiddenOutline = <<>>
    /\ contentFiles = <<>>
    /\ decompressions = <<>>
    /\ urlViewer = <<>>
    /\ urlLoads = <<>>
    /\ objectUrls = <<>>
    /\ cacheDir \in {FullCache(perSecond) : perSecond \in 1..2}
    /\ cacheClock = CACHE_LIMIT
    /\ cacheRequests = <<>>
    /\ cacheRun = NoRun

\* the files of an archive and the entries of a comparison are on display; nothing was read
InitEffects ==
    /\ text = <<>>
    /\ lineTransforms = <<>>
    /\ strippedText = <<>>
    /\ restrippedText = <<>>
    /\ mapping = <<>>
    /\ commentPc = "idle"
    /\ textContent = <<>>
    /\ outline = [lineCount |-> 0, entries |-> <<>>]
    /\ matchIndices = <<>>
    /\ outlinePc = "idle"
    /\ oldEntries = <<>>
    /\ newEntries = <<>>
    /\ unreadableFiles = {}
    /\ diffResult = [state |-> "pending", entries |-> <<>>]
    /\ differPc = "idle"
    /\ versions = <<>>
    /\ preferredFrom = Undefined
    /\ preferredTo = Undefined
    /\ selectedPair = [fromVersion |-> Null, toVersion |-> Null]
    /\ pairPc = "idle"
    /\ linkText = <<>>
    /\ linkMode = "plain"
    /\ linkSpans = <<>>
    /\ linkPc = "idle"
    /\ routeInput = <<>>
    /\ routeArxivId = Null
    /\ routeMode = "browse"
    /\ routeFromVersion = 0
    /\ routeToVersion = 0
    /\ routeFilePath = Undefined
    /\ routeUrl = <<>>
    /\ routeState = Null
    /\ routePc = "idle"
    /\ archiveFiles = <<>>
    /\ mainTexFile = Null
    /\ mainPc = "idle"
    /\ builtEntries = <<>>
    /\ preferredPath = Undefined
    /\ nextSelectedPath = Null
    /\ selectPc = "idle"
    /\ app = DefaultAppState
    /\ history = [entries |-> <<>>, index |-> 0]
    /\ requests = <<>>
    /\ sourceFetches = 0
    /\ userActions = 0
    /\ heapFiles = ShownFiles
    /\ view = DefaultViewState
    /\ effects = <<>>
    /\ outlines = ShownOutlines
    /\ maskInput = <<>>
    /\ outlineMasked = <<>>
    /\ linkMasked = <<>>
    /\ maskPc = "idle"
    /\ visibleLineMap = <<>>
    /\ hiddenOutline = <<>>
    /\ contentFiles = <<>>
    /\ decompressions = <<>>
    /\ urlViewer = <<>>
    /\ urlLoads = <<>>
    /\ objectUrls = <<>>
    /\ cacheDir = <<>>
    /\ cacheClock = 0
    /\ cacheRequests = <<>>
    /\ cacheRun = <<>>

\* a text is handed to both maskers; nothing else runs
InitMask ==
    /\ text = <<>>
    /\ lineTransforms = <<>>
    /\ strippedText = <<>>
    /\ restrippedText = <<>>
    /\ mapping = <<>>
    /\ commentPc = "idle"
    /\ textContent = <<>>
    /\ outline = [lineCount |-> 0, entries |-> <<>>]
    /\ matchIndices = <<>>
    /\ outlinePc = "idle"
    /\ oldEntries = <<>>
    /\ newEntries = <<>>
    /\ unreadableFiles = {}
    /\ diffResult = [state |-> "pending", entries |-> <<>>]
    /\ differPc = "idle"
    /\ versions = <<>>
    /\ preferredFrom = Undefined
    /\ preferredTo = Undefined
    /\ selectedPair = [fromVersion |-> Null, toVersion |-> Null]
    /\ pairPc = "idle"
    /\ linkText = <<>>
    /\ linkMode = "plain"
    /\ linkSpans = <<>>
    /\ linkPc = "idle"
    /\ routeInput = <<>>
    /\ routeArxivId = Null
    /\ routeMode = "browse"
    /\ routeFromVersion = 0
    /\ routeToVersion = 0
    /\ routeFilePath = Undefined
    /\ routeUrl = <<>>
    /\ routeState = Null
    /\ routePc = "idle"
    /\ archiveFiles = <<>>
    /\ mainTexFile = Null
    /\ mainPc = "idle"
    /\ builtEntries = <<>>
    /\ preferredPath = Undefined
    /\ nextSelectedPath = Null
    /\ selectPc = "idle"
    /\ app = DefaultAppState
    /\ history = [entries |-> <<>>, index |-> 0]
    /\ requests = <<>>
    /\ sourceFetches = 0
    /\ userActions = 0
    /\ heapFiles = <<>>
    /\ view = DefaultViewState
    /\ effects = <<>>
    /\ outlines = <<>>
    /\ maskInput \in MaskTexts
    /\ outlineMasked = <<>>
    /\ linkMasked = <<>>
    /\ maskPc = "input"
    /\ visibleLineMap = <<>>
    /\ hiddenOutline = <<>>
    /\ contentFiles = <<>>
    /\ decompressions = <<>>
    /\ urlViewer = <<>>
    /\ urlLoads = <<>>
    /\ objectUrls = <<>>
    /\ cacheDir = <<>>
    /\ cacheClock = 0
    /\ cacheRequests = <<>>
    /\ cacheRun = <<>>

SpecComments == InitComments /\ [][CommentNext]_vars

SpecOutline == InitOutline /\ [][OutlineNext]_vars

SpecDiffer == InitDiffer /\ [][DifferNext]_vars

SpecPair == InitPair /\ [][PairNext]_vars

SpecLinks == InitLinks /\ [][LinkNext]_vars

SpecRoute == InitRoute /\ [][RouteNext]_vars

SpecMainTex == InitMainTex /\ [][MainTexNext]_vars

SpecSelect == InitSelect /\ [][SelectNext]_vars

SpecApp == InitApp /\ [][AppNext]_vars

SpecOpened == InitOpened /\ [][AppNext]_vars

\* every request the handlers await settles: the continuation of a waiting
\* handler is eventually run
FairSpecOpened ==
    /\ SpecOpened
    /\ WF_vars(ArxivSourceArrives)
    /\ WF_vars(ArxivMainFileArrives)
    /\ WF_vars(VersionsArrive)
    /\ WF_vars(DiffSourcesArrive)
    /\ WF_vars(DiffMainFileArrives)

SpecContent == InitContent /\ [][ContentNext]_vars

SpecUrls == InitUrls /\ [][UrlNext]_vars

SpecCache == InitCache /\ [][CacheNext]_vars

SpecEffects == InitEffects /\ [][EffectsNext]_vars

SpecMask == InitMask /\ [][MaskNext]_vars

SpecOutlineMap == InitOutline /\ [][OutlineMapNext]_vars

-----------------------------------------------------------------------------
(* Properties of the comment transformer *)

\* the number of consecutive backslashes directly before index i
BackslashRunBefore(line, i) ==
    CHOOSE k \in 0..i :
        /\ \A m \in 1..k : At(line, i - m) = BACKSLASH
        /\ k = i \/ At(line, i - k - 1) # BACKSLASH

\* the indices of the percent signs preceded by an even number of backslashes
CommentStarts(line) ==
    {i \in 0..(Len(line) - 1) :
        At(line, i) = PERCENT /\ BackslashRunBefore(line, i) % 2 = 0}

\* line[0..i) without its trailing spaces and tabs
BlankTrimmedPrefix(line, i) ==
    LET ends == {n \in 0..i : n = 0 \/ At(line, n - 1) \notin {SPACE, TAB}}
    IN  Slice(line, 0, Max(ends))

LineIsRemoved(line) == CommentStarts(line) # {} /\ Min(CommentStarts(line)) = 0

LineAsKept(line) ==
    IF CommentStarts(line) = {} THEN line
    ELSE BlankTrimmedPrefix(line, Min(CommentStarts(line)))

KeptTransformedLines ==
    LET kept == SelectSeq(lineTransforms, LAMBDA t : ~t.removeLine)
    IN  [k \in 1..Len(kept) |-> kept[k].transformedLine]

NonZeroCount(m) == Cardinality({i \in 1..Len(m) : m[i] # 0})

NonZeroNonDecreasing(m) ==
    \A i, j \in 1..Len(m) : (i < j /\ m[i] # 0 /\ m[j] # 0) => m[i] <= m[j]

\* C7: transformLine acts on the first percent sign preceded by an even number
\* of backslashes: at index 0 the line is removed, elsewhere the result is the
\* text before it without trailing spaces and tabs, and a line without such a
\* percent sign is returned unchanged; stripLatexComments is the kept
\* transformed lines joined by newline ("100\% done % note" gives
\* "100\% done", the five-line example gives three lines).
C7_TransformLineFirstMarker ==
    commentPc # "input" =>
        LET lines == SplitLines(text)
        IN  /\ Len(lineTransforms) = Len(lines)
            /\ \A k \in 1..Len(lines) :
                  /\ lineTransforms[k].removeLine = LineIsRemoved(lines[k])
                  /\ ~lineTransforms[k].removeLine =>
                        lineTransforms[k].transformedLine = LineAsKept(lines[k])
            /\ strippedText = JoinLines(KeptTransformedLines)
            /\ text = EscapeExampleText => strippedText = EscapeExampleStripped
            /\ text = FiveLineExampleText => Len(SplitLines(strippedText)) = 3

\* C7 witness: a stripped text with an escaped percent sign kept, an inline
\* comment cut with the blank before it, and a pure comment line removed
C7_Witness ==
    /\ commentPc = "stripped"
    /\ \E k \in 1..Len(lineTransforms) : lineTransforms[k].removeLine
    /\ \E k \in 1..Len(lineTransforms) :
          LET line == SplitLines(text)[k]
          IN  /\ ~lineTransforms[k].removeLine
              /\ CommentStarts(line) # {}
              /\ Len(lineTransforms[k].transformedLine) < Min(CommentStarts(line))
              /\ \E i \in 0..(Len(line) - 1) :
                    At(line, i) = PERCENT /\ i < Min(CommentStarts(line))

\* C8: stripping the comments of a stripped text changes nothing.
C8_StripIdempotent ==
    commentPc \in {"restripped", "mapped"} => restrippedText = strippedText

\* C8 witness: the first pass removed a line and cut an inline comment, and
\* the second pass has run on a non-empty result
C8_Witness ==
    /\ commentPc = "restripped"
    /\ Len(strippedText) > 0
    /\ \E k \in 1..Len(lineTransforms) : lineTransforms[k].removeLine
    /\ \E k \in 1..Len(lineTransforms) :
          /\ ~lineTransforms[k].removeLine
          /\ lineTransforms[k].transformedLine # SplitLines(text)[k]

\* C9 as stated: the nonzero values of the map are non-decreasing and there
\* are as many of them as stripLatexComments(text) has lines.
C9_AsStated ==
    commentPc = "mapped" =>
        /\ NonZeroNonDecreasing(mapping)
        /\ NonZeroCount(mapping) = Len(SplitLines(strippedText))

\* C9 (amended): the nonzero values of the map are non-decreasing and there
\* are as many of them as stripLatexComments keeps lines; that is the number
\* of lines of stripLatexComments(text) when at least one line is kept, and
\* when every line is removed the count is 0 and the stripped text is empty.
C9_VisibleLineMapMonotone ==
    commentPc = "mapped" =>
        /\ NonZeroNonDecreasing(mapping)
        /\ NonZeroCount(mapping) = Len(KeptTransformedLines)
        /\ NonZeroCount(mapping) > 0 =>
              NonZeroCount(mapping) = Len(SplitLines(strippedText))
        /\ NonZeroCount(mapping) = 0 => strippedText = <<>>

\* C9 witness: a map with removed lines between kept ones
C9_Witness ==
    /\ commentPc = "mapped"
    /\ \E i, j, k \in 1..Len(mapping) :
          i < j /\ j < k /\ mapping[i] > 0 /\ mapping[j] = 0 /\ mapping[k] > 0

\* C10: map[i] = 0 exactly when stripLatexComments drops line i, and when
\* map[i] = k > 0, line k of stripLatexComments(text) is the transformed form
\* of line i.
C10_MapAgreesWithStripper ==
    commentPc = "mapped" =>
        LET lines == SplitLines(text)
            out == SplitLines(strippedText)
        IN  /\ Len(mapping) = Len(lines)
            /\ \A i \in 1..Len(lines) :
                  /\ mapping[i] = 0 <=> lineTransforms[i].removeLine
                  /\ mapping[i] > 0 =>
                        /\ mapping[i] <= Len(out)
                        /\ out[mapping[i]] = lineTransforms[i].transformedLine

\* C10 witness: a kept line after a removed one, shifted up in the stripped
\* text and changed by the transformation
C10_Witness ==
    /\ commentPc = "mapped"
    /\ \E i, j \in 1..Len(mapping) :
          /\ i < j /\ mapping[i] = 0 /\ mapping[j] > 0 /\ mapping[j] < j
          /\ lineTransforms[j].transformedLine # SplitLines(text)[j]

-----------------------------------------------------------------------------
(* Properties of the outline extractor *)

\* the number of newline characters before index i
NewlinesBefore(s, i) == Cardinality({j \in 0..(i - 1) : At(s, j) = NEWLINE})

\* index i lies at or after a percent sign of its line that is preceded by an
\* even number of backslashes
InComment(s, i) ==
    \E p \in 0..i :
        /\ At(s, p) = PERCENT
        /\ BackslashRunBefore(s, p) % 2 = 0
        /\ \A j \in p..i : At(s, j) # NEWLINE

\* s with every character of a comment replaced by a space
CommentMasked(s) == [k \in 1..Len(s) |-> IF InComment(s, k - 1) THEN SPACE ELSE s[k]]

\* the first index at or after i that holds no whitespace, Len(s) if none
FirstNonWhitespace(s, i) ==
    Min({j \in i..Len(s) : j = Len(s) \/ ~IsWhitespace(At(s, j))})

CountIn(s, from, to, c) == Cardinality({j \in from..to : At(s, j) = c})

\* the indices at which the delimiter opened at index open is balanced
BalancePoints(s, open, openChar, closeChar) ==
    {q \in open..(Len(s) - 1) :
        CountIn(s, open, q, openChar) = CountIn(s, open, q, closeChar)}

\* the closing delimiter that balances the opening one at index open, Len(s)
\* if there is none
BalancedClose(s, open, openChar, closeChar) ==
    IF BalancePoints(s, open, openChar, closeChar) = {} THEN Len(s)
    ELSE Min(BalancePoints(s, open, openChar, closeChar))

\* the index of the brace that opens the mandatory argument of the command
\* found at matchIndex
MandatoryOpen(s, matchIndex, command) ==
    LET nameEnd == matchIndex + 1 + Len(command)
        afterStar == IF nameEnd < Len(s) /\ At(s, nameEnd) = "*"
                     THEN nameEnd + 1 ELSE nameEnd
        a == FirstNonWhitespace(s, afterStar)
    IN  IF a < Len(s) /\ At(s, a) = "["
        THEN IF BalancedClose(s, a, "[", "]") < Len(s)
             THEN FirstNonWhitespace(s, BalancedClose(s, a, "[", "]") + 1)
             ELSE Len(s)
        ELSE a

\* the command found at matchIndex has a mandatory argument with balanced
\* braces
HasMandatoryArgument(s, matchIndex, command) ==
    LET open == MandatoryOpen(s, matchIndex, command)
    IN  /\ open < Len(s)
        /\ At(s, open) = "{"
        /\ BalancedClose(s, open, "{", "}") < Len(s)

\* the text between the outermost braces of the mandatory argument
MandatoryArgument(s, matchIndex, command) ==
    LET open == MandatoryOpen(s, matchIndex, command)
    IN  Slice(s, open + 1, BalancedClose(s, open, "{", "}"))

\* the words of s (its maximal runs without whitespace) separated by one space
RECURSIVE WordsFrom(_, _, _)
WordsFrom(s, i, seen) ==
    IF i >= Len(s) THEN <<>>
    ELSE IF IsWhitespace(At(s, i)) THEN WordsFrom(s, i + 1, seen)
    ELSE (IF seen /\ IsWhitespace(At(s, i - 1)) THEN <<SPACE>> ELSE <<>>)
             \o <<At(s, i)>> \o WordsFrom(s, i + 1, TRUE)

WordsOf(s) == WordsFrom(s, 0, FALSE)

EntryCommands == [k \in 1..Len(outline.entries) |-> outline.entries[k].command]

EntryDepths == [k \in 1..Len(outline.entries) |-> outline.entries[k].depth]

\* C3: when at least one heading is emitted, the depth of every entry is the
\* rank of its command minus the least rank among the emitted entries, so some
\* entry has depth 0; \section, \subsection, \section gives depths 0, 1, 0.
C3_DepthRelativeToShallowest ==
    (outlinePc = "parsed" /\ Len(outline.entries) > 0) =>
        LET es == outline.entries
            least == Min({SECTION_LEVEL_MAP(es[k].command) : k \in 1..Len(es)})
        IN  /\ \A k \in 1..Len(es) :
                  es[k].depth = SECTION_LEVEL_MAP(es[k].command) - least
            /\ \E k \in 1..Len(es) : es[k].depth = 0
            /\ EntryCommands = <<SECTION_COMMANDS[3], SECTION_COMMANDS[4],
                                 SECTION_COMMANDS[3]>>
                  => EntryDepths = <<0, 1, 0>>
            /\ textContent = NestingExampleContent => EntryDepths = <<0, 1, 0>>

\* C3 witness: an outline whose first heading is not the shallowest one
C3_Witness ==
    /\ outlinePc = "parsed"
    /\ Len(outline.entries) >= 2
    /\ outline.entries[1].depth > 0

\* C4: the entries are in document order and the lineNumber of each is the
\* 1-based line of the original content that holds the backslash of its
\* command: 1 + the number of newlines before that offset.
C4_LineNumbersInDocumentOrder ==
    outlinePc = "parsed" =>
        LET es == outline.entries
        IN  /\ Len(matchIndices) = Len(es)
            /\ \A k \in 1..Len(es) :
                  /\ At(textContent, matchIndices[k]) = BACKSLASH
                  /\ HasWordAt(textContent, matchIndices[k] + 1, es[k].command)
                  /\ es[k].lineNumber = 1 + NewlinesBefore(textContent, matchIndices[k])
            /\ \A j, k \in 1..Len(es) :
                  j < k => /\ es[j].lineNumber <= es[k].lineNumber
                           /\ matchIndices[j] < matchIndices[k]

\* C4 witness: two headings on different lines, the second at the very start
\* of its line, below a line that holds a comment
C4_Witness ==
    /\ outlinePc = "parsed"
    /\ Len(outline.entries) = 2
    /\ outline.entries[1].lineNumber < outline.entries[2].lineNumber
    /\ At(textContent, matchIndices[2] - 1) = NEWLINE
    /\ \E p \in 0..(matchIndices[2] - 1) : InComment(textContent, p)

\* C5: the title of a heading whose mandatory argument is not empty is the
\* whole text between the outermost braces of that argument in the
\* comment-masked content, whitespace collapsed and trimmed, nested braces
\* included: \section{A \textbf{bold} word} has the title A \textbf{bold} word.
C5_TitleKeepsNestedBraces ==
    outlinePc = "parsed" =>
        LET es == outline.entries
            masked == CommentMasked(textContent)
        IN  /\ \A k \in 1..Len(es) :
                  LET arg == MandatoryArgument(masked, matchIndices[k], es[k].command)
                  IN  /\ HasMandatoryArgument(masked, matchIndices[k], es[k].command)
                      /\ arg # <<>> => es[k].title = WordsOf(arg)
            /\ textContent = BraceExampleContent =>
                  /\ Len(es) = 1
                  /\ es[1].title = BraceExampleTitle

\* C5 witness: a heading whose mandatory argument holds a nested brace pair
\* with text after it
C5_Witness ==
    /\ outlinePc = "parsed"
    /\ \E k \in 1..Len(outline.entries) :
          LET arg == MandatoryArgument(CommentMasked(textContent), matchIndices[k],
                                       outline.entries[k].command)
          IN  \E i, j \in 0..(Len(arg) - 1) :
                 i < j /\ At(arg, i) = "}" /\ ~IsWhitespace(At(arg, j))

\* C6: no entry is emitted for a sectioning command whose backslash lies
\* after an unescaped percent sign of its line.
C6_NoHeadingInsideComment ==
    outlinePc = "parsed" =>
        /\ Len(matchIndices) = Len(outline.entries)
        /\ \A k \in 1..Len(matchIndices) :
              /\ At(textContent, matchIndices[k]) = BACKSLASH
              /\ ~InComment(textContent, matchIndices[k])

\* C6 witness: a complete heading stands after an unescaped percent sign on
\* its line, and the outline holds a heading of another line
C6_Witness ==
    /\ outlinePc = "parsed"
    /\ Len(outline.entries) >= 1
    /\ \E p \in 0..(Len(textContent) - 1) :
          /\ InComment(textContent, p)
          /\ SectionPatternAt(textContent, p) # Null
          /\ RawEntryOfMatch(textContent, buildLineStartIndices(textContent),
                             SectionPatternAt(textContent, p), 0) # Null

-----------------------------------------------------------------------------
(* Properties of the archive differ *)

\* the file of the list with the given path
FileAt(files, path) == CHOOSE f \in {files[k] : k \in 1..Len(files)} : f.path = path

\* C1: buildDiffEntries returns exactly one entry for each path of the union
\* of the two path sets and no other entry; an entry is 'added' exactly when
\* its path is only in newFiles (oldFile null), 'removed' exactly when its
\* path is only in oldFiles (newFile null), and otherwise holds both files and
\* is 'unchanged' exactly when their bytes are identical, else 'modified'.
C1_DiffEntriesClassifyUnion ==
    (differPc = "settled" /\ diffResult.state = "fulfilled") =>
        LET es == diffResult.entries
            oldPaths == PathsOf(oldEntries)
            newPaths == PathsOf(newEntries)
        IN  /\ {es[k].path : k \in 1..Len(es)} = oldPaths \cup newPaths
            /\ \A j, k \in 1..Len(es) : j # k => es[j].path # es[k].path
            /\ \A k \in 1..Len(es) :
                  LET e == es[k]
                  IN  /\ e.status \in {"added", "removed", "modified", "unchanged"}
                      /\ e.status = "added" <=> e.path \in newPaths \ oldPaths
                      /\ e.status = "removed" <=> e.path \in oldPaths \ newPaths
                      /\ e.status = "added" =>
                            e.oldFile = Null /\ e.newFile = FileAt(newEntries, e.path)
                      /\ e.status = "removed" =>
                            e.newFile = Null /\ e.oldFile = FileAt(oldEntries, e.path)
                      /\ e.path \in oldPaths \cap newPaths =>
                            /\ e.oldFile = FileAt(oldEntries, e.path)
                            /\ e.newFile = FileAt(newEntries, e.path)
                            /\ e.status = "unchanged" <=>
                                  FileAt(oldEntries, e.path).bytes
                                      = FileAt(newEntries, e.path).bytes
                            /\ e.status \in {"unchanged", "modified"}

\* C1 witness: a comparison with an added, a removed and a modified path, the
\* modified files having the same length
C1_Witness ==
    /\ differPc = "settled"
    /\ diffResult.state = "fulfilled"
    /\ \E i, j, k \in 1..Len(diffResult.entries) :
          /\ diffResult.entries[i].status = "added"
          /\ diffResult.entries[j].status = "removed"
          /\ diffResult.entries[k].status = "modified"
          /\ Len(diffResult.entries[k].oldFile.bytes)
                = Len(diffResult.entries[k].newFile.bytes)

\* the paths both archives hold of which one side cannot be decompressed
UnreadablePairedPaths ==
    {u[2] : u \in unreadableFiles} \cap PathsOf(oldEntries) \cap PathsOf(newEntries)

\* C15: when one side of one paired path cannot be decompressed, the
\* comparison as a whole does not fail: it settles with a list in which every
\* other path is classified, only the affected path being left unknown.
C15_DecompressionFailureIsolated ==
    (differPc = "settled" /\ UnreadablePairedPaths # {}) =>
        /\ diffResult.state = "fulfilled"
        /\ \A p \in (PathsOf(oldEntries) \cup PathsOf(newEntries)) \ UnreadablePairedPaths :
              \E k \in 1..Len(diffResult.entries) :
                 /\ diffResult.entries[k].path = p
                 /\ diffResult.entries[k].status
                       \in {"added", "removed", "modified", "unchanged"}

-----------------------------------------------------------------------------
(* Properties of the version-pair selection *)

AvailableVersionSet == {versions[k].version : k \in 1..Len(versions)}

\* the preference, when it names an available version
HonouredPreference(preferred) ==
    IsNum(preferred) /\ preferred.num \in AvailableVersionSet

SecondLargestVersion ==
    IF Cardinality(AvailableVersionSet) >= 2
    THEN Max(AvailableVersionSet \ {Max(AvailableVersionSet)})
    ELSE Max(AvailableVersionSet)

VersionNumbersAre(numbers) ==
    versions = [k \in 1..Len(numbers) |-> [version |-> numbers[k]]]

NoPreference(preferred) == preferred \in {Null, Undefined}

\* C2: for a non-empty version list, toVersion is preferredTo if it is
\* available, else the largest version, and fromVersion is preferredFrom if it
\* is available, else the second-largest version (the largest when there is
\* only one), each side on its own: [1,2,3] without preference gives
\* {from 2, to 3}, [1] gives {1, 1}, and preferredFrom = 1 with an invalid
\* preferredTo over [1,2,3] gives {from 1, to 3}.
C2_PairSelectedPerSide ==
    (pairPc = "selected" /\ Len(versions) > 0) =>
        /\ selectedPair.toVersion =
              IF HonouredPreference(preferredTo) THEN preferredTo
              ELSE Num(Max(AvailableVersionSet))
        /\ selectedPair.fromVersion =
              IF HonouredPreference(preferredFrom) THEN preferredFrom
              ELSE Num(SecondLargestVersion)
        /\ (VersionNumbersAre(<<1, 2, 3>>) /\ NoPreference(preferredFrom)
                /\ NoPreference(preferredTo))
              => selectedPair = [fromVersion |-> Num(2), toVersion |-> Num(3)]
        /\ (VersionNumbersAre(<<1>>) /\ NoPreference(preferredFrom)
                /\ NoPreference(preferredTo))
              => selectedPair = [fromVersion |-> Num(1), toVersion |-> Num(1)]
        /\ (VersionNumbersAre(<<1, 2, 3>>) /\ preferredFrom = Num(1)
                /\ preferredTo = Num(InvalidVersion))
              => selectedPair = [fromVersion |-> Num(1), toVersion |-> Num(3)]

\* C2 witness: over an unsorted list of three versions, a valid preferredFrom
\* is honoured while an invalid preferredTo falls back to the largest version
C2_Witness ==
    /\ pairPc = "selected"
    /\ Len(versions) = 3
    /\ versions[3].version # Max(AvailableVersionSet)
    /\ preferredFrom = Num(1)
    /\ preferredTo = Num(InvalidVersion)
    /\ selectedPair = [fromVersion |-> Num(1), toVersion |-> Num(3)]

\* the sectioning command found at index q has an optional argument whose
\* bracket, or a mandatory argument whose brace, is never balanced
UnterminatedHeadingAt(s, q) ==
    LET match == SectionPatternAt(s, q)
        a == FirstNonWhitespace(s, match.lastIndex)
        open == MandatoryOpen(s, q, match.command)
    IN  /\ a < Len(s)
        /\ \/ At(s, a) = "[" /\ BalancedClose(s, a, "[", "]") = Len(s)
           \/ /\ open < Len(s)
              /\ At(s, open) = "{"
              /\ BalancedClose(s, open, "{", "}") = Len(s)

\* the sectioning command found at index p has a balanced mandatory argument
\* that holds a title
WellFormedHeadingAt(s, p) ==
    LET command == SectionPatternAt(s, p).command
    IN  /\ HasMandatoryArgument(s, p, command)
        /\ WordsOf(MandatoryArgument(s, p, command)) # <<>>

\* the offsets of the sectioning commands of s
CommandOffsets(s) == {p \in 0..(Len(s) - 1) : SectionPatternAt(s, p) # Null}

EmittedOffsets == {matchIndices[k] : k \in 1..Len(matchIndices)}

\* C16: a sectioning command with an unterminated bracket or brace argument is
\* skipped and the scan goes on with the next command: every well-formed
\* heading of the content, those after the skipped command included, is
\* emitted and no unterminated one is; parseTexOutline returns on every content.
C16_UnterminatedHeadingSkipped ==
    /\ outlinePc = "input" =>
          /\ parseTexOutline(textContent).lineCount = Len(SplitLines(textContent))
          /\ Len(parseTexOutline(textContent).entries) <= Cardinality(CommandOffsets(textContent))
    /\ outlinePc = "parsed" =>
          LET masked == CommentMasked(textContent)
          IN  \A p \in CommandOffsets(masked) :
                 /\ WellFormedHeadingAt(masked, p) => p \in EmittedOffsets
                 /\ UnterminatedHeadingAt(masked, p) => p \notin EmittedOffsets

\* C16 witness: a well-formed heading stands after a command with an
\* unterminated argument and is the only entry of the outline
C16_Witness ==
    /\ outlinePc = "parsed"
    /\ Len(outline.entries) = 1
    /\ \E q, p \in CommandOffsets(CommentMasked(textContent)) :
          /\ q < p
          /\ UnterminatedHeadingAt(CommentMasked(textContent), q)
          /\ WellFormedHeadingAt(CommentMasked(textContent), p)
          /\ matchIndices = <<p>>

-----------------------------------------------------------------------------
(* Properties of the link detector *)

\* the spans the three patterns find in the masked linkText
LinkCandidates == CandidateSpans(maskLatexCommentsPreservingLength(linkText))

LinkPayloads == [k \in 1..Len(linkSpans) |-> linkSpans[k].payload]

\* C11: in tex mode the spans collectLatexLinkSpans returns are ordered by
\* start offset and each starts at or after the end of the one before it, so
\* no two of them overlap; for the text \ref{a}\ref{b} it returns exactly two
\* spans, with the payloads a and b.
C11_LinkSpansOrderedDisjoint ==
    (linkPc = "collected" /\ linkMode = "tex") =>
        /\ \A k \in 1..(Len(linkSpans) - 1) :
              /\ linkSpans[k].from <= linkSpans[k + 1].from
              /\ linkSpans[k].to <= linkSpans[k + 1].from
        /\ \A k \in 1..Len(linkSpans) : linkSpans[k].from < linkSpans[k].to
        /\ linkText = AdjacentRefsText =>
              /\ Len(linkSpans) = 2
              /\ LinkPayloads = << <<"a">>, <<"b">> >>
              /\ linkSpans[1].to = linkSpans[2].from

\* a reference inside the options of an \includegraphics was found by
\* REF_PATTERN and discarded, and two spans are returned
C11_Witness ==
    /\ linkPc = "collected"
    /\ linkMode = "tex"
    /\ Len(linkSpans) = 2
    /\ Len(LinkCandidates) = 3
    /\ \E k \in 1..Len(LinkCandidates) :
          /\ LinkCandidates[k].kind = "ref"
          /\ LinkCandidates[k].from < linkSpans[2].to
          /\ LinkCandidates[k].from > linkSpans[2].from


-----------------------------------------------------------------------------
(* Properties of the URL routing *)

\* what parseURL gives back for the file path handed to a URL builder
ExpectedFilePath == IF NoFilePath(routeFilePath) THEN Null ELSE routeFilePath

\* the id of routeArxivId is of the old format: it holds a slash
OldFormatId == routeArxivId # Null /\ IncludesWord(routeArxivId.str, <<"/">>)

\* C18: with BASE_URL '/', for every id extractArxivId accepts, of the new and
\* of the old format, every pair of versions and every optional file path,
\* parseURL gives back mode 'browse' with the id and the path handed to
\* buildBrowseURL, and mode 'diff' with the id, the versions and the path
\* handed to buildDiffURL.
C18_URLRoundTrip ==
    routePc = "parsed" =>
        IF routeMode = "browse"
        THEN routeState = [mode |-> "browse",
                           arxivId |-> routeArxivId,
                           filePath |-> ExpectedFilePath]
        ELSE routeState = [mode |-> "diff",
                           arxivId |-> routeArxivId,
                           fromVersion |-> Num(routeFromVersion),
                           toVersion |-> Num(routeToVersion),
                           filePath |-> ExpectedFilePath]


-----------------------------------------------------------------------------
(* Properties of the main-file detection *)

\* the name has the extension tex, in either case
HasTexExtension(name) ==
    /\ Len(name) >= Len(TEX_SUFFIX)
    /\ \A k \in 1..Len(TEX_SUFFIX) :
          FoldCase(name[Len(name) - Len(TEX_SUFFIX) + k]) = TEX_SUFFIX[k]

\* the positions of the .tex files of archiveFiles
TexPositions == {k \in 1..Len(archiveFiles) : HasTexExtension(archiveFiles[k].path)}

\* those whose content can be read and contains \begin{document}
DocumentPositions ==
    {k \in TexPositions :
        /\ archiveFiles[k].readable
        /\ \E i \in 0..Len(archiveFiles[k].zipText) :
              HasWordAt(archiveFiles[k].zipText, i, BEGIN_DOCUMENT)}

\* C14: findMainTexFile returns no file when no file name ends in .tex, the
\* only .tex file when there is exactly one, and otherwise the first .tex
\* file in archive order whose content contains \begin{document}, no file if
\* none contains it.  The extension is compared without regard to case and a
\* file that cannot be read contains nothing.
C14_MainTexFileSelected ==
    mainPc = "found" =>
        /\ TexPositions = {} => mainTexFile = Null
        /\ Cardinality(TexPositions) = 1 =>
              mainTexFile = archiveFiles[CHOOSE k \in TexPositions : TRUE]
        /\ (Cardinality(TexPositions) > 1 /\ DocumentPositions # {}) =>
              mainTexFile = archiveFiles[Min(DocumentPositions)]
        /\ (Cardinality(TexPositions) > 1 /\ DocumentPositions = {}) =>
              mainTexFile = Null

\* C14 witness: of three .tex files the first cannot be read, the second
\* lacks \begin{document} and the third, which has it, is returned
C14_Witness ==
    /\ mainPc = "found"
    /\ Cardinality(TexPositions) = 3
    /\ DocumentPositions = {Max(TexPositions)}
    /\ \E k \in TexPositions : ~archiveFiles[k].readable
    /\ mainTexFile = archiveFiles[Max(TexPositions)]

\* the positions of the .tex entries of builtEntries
TexEntryPositions == {k \in 1..Len(builtEntries) : HasTexExtension(builtEntries[k].path)}

\* the file of an entry that is compared: the new one, the old one of a
\* removed entry
ComparedFile(entry) == IF entry.status = "removed" THEN entry.oldFile ELSE entry.newFile

\* the .tex entries that qualify as the main file: the only .tex entry, or
\* one whose content can be read and contains \begin{document}
QualifyingPositions ==
    {k \in TexEntryPositions :
        \/ Cardinality(TexEntryPositions) = 1
        \/ /\ ComparedFile(builtEntries[k]).readable
           /\ IncludesWord(ComparedFile(builtEntries[k]).zipText, BEGIN_DOCUMENT)}

ChangedPositions == {k \in 1..Len(builtEntries) : builtEntries[k].status # "unchanged"}

PreferredPathListed ==
    /\ preferredPath # Undefined /\ preferredPath # Null
    /\ \E k \in 1..Len(builtEntries) : Str(builtEntries[k].path) = preferredPath

\* C13: when the preferred file path is absent or not among the entries
\* loadDiffPair has built, the selected path is that of the .tex entry that
\* qualifies as the main file (the first one if several do); if no .tex entry
\* qualifies it is the first entry whose status is not 'unchanged'; otherwise
\* it is the first entry overall.
C13_DefaultDiffFileSelected ==
    (selectPc = "selected" /\ ~PreferredPathListed) =>
        nextSelectedPath =
            IF QualifyingPositions # {}
            THEN Str(builtEntries[Min(QualifyingPositions)].path)
            ELSE IF ChangedPositions # {}
                 THEN Str(builtEntries[Min(ChangedPositions)].path)
            ELSE IF Len(builtEntries) > 0 THEN Str(builtEntries[1].path)
            ELSE Null

-----------------------------------------------------------------------------
(* Properties of the request handlers *)

\* request r is a handleDiffSubmit call that receives, in this step, a valid
\* version list with fewer than two versions
ReceivesFewVersions(r) ==
    /\ requests[r].handler = "handleDiffSubmit"
    /\ requests[r].pc = "fetching"
    /\ requests'[r].received # Null
    /\ requests'[r].received.ok
    /\ Len(requests'[r].received.versions) < 2

\* C12: when the version list handleDiffSubmit receives has fewer than two
\* versions, the handler finishes in that step without requesting a source
\* archive and without starting loadDiffPair; diffEntries is then empty,
\* selectedDiffFilePath is null, a diffMessage is set and loading is false.
C12_FewVersionsNoDiff ==
    [][\A r \in 1..Len(requests) :
          ReceivesFewVersions(r) =>
              /\ requests'[r].handler = "handleDiffSubmit"
              /\ requests'[r].pc = "done"
              /\ sourceFetches' = sourceFetches
              /\ app'.diffEntries = <<>>
              /\ app'.selectedDiffFilePath = Null
              /\ app'.diffMessage \in {Message(NO_VERSIONS), Message(ONE_VERSION)}
              /\ app'.loading = FALSE]_vars

\* a handleDiffSubmit call has finished on a list of one version while
\* nothing else was loading
C12_Witness ==
    \E r \in 1..Len(requests) :
        /\ requests[r].handler = "handleDiffSubmit"
        /\ requests[r].pc = "done"
        /\ requests[r].received # Null
        /\ requests[r].received.ok
        /\ Len(requests[r].received.versions) = 1
        /\ app.diffMessage = Message(ONE_VERSION)
        /\ app.diffFromVersion = Num(1)
        /\ app.diffEntries = <<>>
        /\ ~app.loading

\* request r is a superseded handleArxivSubmit or loadDiffPair call that
\* resumes in this step
SupersededResumes(r) ==
    /\ requests[r].handler \in {"handleArxivSubmit", "loadDiffPair"}
    /\ requests[r].superseded
    /\ requests[r].pc # "done"
    /\ requests'[r].pc # requests[r].pc

\* C19: when the user has switched to another paper or version pair, or has
\* reset the page, while a handleArxivSubmit or loadDiffPair request was in
\* flight, the superseded request does not overwrite files, paperId,
\* selectedFile, diffEntries or selectedDiffFilePath when it resumes, and
\* pushes no history entry.
C19_SupersededResultDropped ==
    [][\A r \in 1..Len(requests) :
          SupersededResumes(r) =>
              /\ app'.files = app.files
              /\ app'.paperId = app.paperId
              /\ app'.selectedFile = app.selectedFile
              /\ app'.diffEntries = app.diffEntries
              /\ app'.selectedDiffFilePath = app.selectedDiffFilePath
              /\ history'.index = history.index
              /\ Len(history'.entries) = Len(history.entries)]_vars


-----------------------------------------------------------------------------
(* Properties of the effects that read file contents *)

\* the i-th effect run or call resumes from its decompression in this step
Resumes(i) ==
    /\ effects[i].pc = "reading"
    /\ effects'[i] # effects[i]

\* C17: the content of a FileEntry is null until a consumer that read the
\* file stores it (viewer load, outline effect, diff viewer, default diff
\* file detection), and once it is non-null no step of any consumer, in any
\* interleaving, changes its value
C17_ContentWrittenOnce ==
    [][\A k \in 1..Len(heapFiles) :
          /\ heapFiles[k].content # Null => heapFiles'[k].content = heapFiles[k].content
          /\ heapFiles[k].content = Null /\ heapFiles'[k].content # Null
                => \E i \in 1..Len(effects) : Resumes(i)]_vars

\* two consumers, the viewer load and the outline effect, have each read and
\* stored the content of the same file
C17_Witness ==
    \E i, j \in 1..Len(effects) :
        /\ effects[i].kind = "viewer" /\ effects[i].pc = "done"
        /\ effects[j].kind = "outline" /\ effects[j].pc = "done"
        /\ effects[i].file = effects[j].file
        /\ heapFiles[effects[i].file.num].content
              = Str(heapFiles[effects[i].file.num].zipText)

\* the outline effect run i was started for what is selected now
OutlineCurrent(i) ==
    /\ view.appMode = "browse"
    /\ view.selectedFile = effects[i].file
    /\ view.hideCommentsInViewer = effects[i].hideCommentsInViewer

\* the DiffViewer effect run i was started for the file pair shown now
DiffCurrent(i) ==
    /\ view.appMode = "diff"
    /\ view.selectedDiffEntry # Null
    /\ ShownDiffEntries[view.selectedDiffEntry.num].oldFile = effects[i].oldFile
    /\ ShownDiffEntries[view.selectedDiffEntry.num].newFile = effects[i].newFile

\* C20: when the decompression of an outline effect run or of a DiffViewer
\* effect run settles after the selected file, the file pair or the
\* hide-comments flag has changed, or after the run was cleaned up, the step
\* calls no state setter and changes no component state
C20_StaleResultNotCommitted ==
    [][\A i \in 1..Len(effects) :
          /\ effects[i].kind = "outline" /\ Resumes(i)
                /\ (effects[i].cancelled \/ ~OutlineCurrent(i))
                => view' = view /\ ~effects'[i].updated
          /\ effects[i].kind = "diff" /\ Resumes(i)
                /\ (effects[i].cancelled \/ ~DiffCurrent(i))
                => view' = view /\ ~effects'[i].updated]_vars

\* an outline effect run was cleaned up while it waited, because another
\* file was selected or the flag was changed; its decompression has settled
\* since and has stored the content, and it has called no state setter
C20_Witness ==
    \E i \in 1..Len(effects) :
        /\ effects[i].kind = "outline"
        /\ effects[i].cancelled
        /\ effects[i].pc = "done"
        /\ ~effects[i].updated
        /\ ~OutlineCurrent(i)
        /\ heapFiles[effects[i].file.num].content # Null

\* the same for a DiffViewer effect run: another file pair is shown now
C20_DiffWitness ==
    \E i \in 1..Len(effects) :
        /\ effects[i].kind = "diff"
        /\ effects[i].cancelled
        /\ effects[i].pc = "done"
        /\ ~effects[i].updated
        /\ ~DiffCurrent(i)
        /\ view.appMode = "diff"

-----------------------------------------------------------------------------
(* Properties of the two comment maskers *)

\* C23: the masked copy of the outline extractor and the one of the link-span
\* extractor are the same string; it is as long as the input, has its
\* newlines at the same offsets, and is the input with every character from
\* an unescaped % to the end of its line replaced by a space
C23_MaskedCopiesAgree ==
    maskPc = "masked" =>
        /\ outlineMasked = linkMasked
        /\ Len(linkMasked) = Len(maskInput)
        /\ \A i \in 1..Len(maskInput) :
              /\ (linkMasked[i] = NEWLINE) = (maskInput[i] = NEWLINE)
              /\ linkMasked[i] = IF InComment(maskInput, i - 1) THEN SPACE
                                 ELSE maskInput[i]

\* both maskers have run on "a\\%b" followed by a second line: the comment
\* after the two backslashes is masked, the newline and the next line are kept
C23_Witness ==
    /\ maskPc = "masked"
    /\ maskInput = DoubleBackslashExampleText
    /\ outlineMasked = <<"a", BACKSLASH, BACKSLASH, SPACE, SPACE, NEWLINE, "c">>
    /\ linkMasked = outlineMasked

-----------------------------------------------------------------------------
(* Properties of the outline with comments hidden *)

\* C29: every entry of parseTexOutline(content) stands on a line the comment
\* stripper keeps (the line map holds a number >= 1 at lineNumber - 1), so
\* with comments hidden no entry is dropped, every entry carries the number
\* the map holds for its line, and the mapped line numbers are non-decreasing
C29_HiddenOutlineKeepsEntries ==
    outlinePc = "mapped" =>
        /\ \A k \in 1..Len(outline.entries) :
              /\ outline.entries[k].lineNumber \in 1..Len(visibleLineMap)
              /\ visibleLineMap[outline.entries[k].lineNumber] >= 1
        /\ Len(hiddenOutline) = Len(outline.entries)
        /\ \A k \in 1..Len(hiddenOutline) :
              /\ hiddenOutline[k].lineNumber
                    = visibleLineMap[outline.entries[k].lineNumber]
              /\ hiddenOutline[k].title = outline.entries[k].title
        /\ \A j, k \in 1..Len(hiddenOutline) :
              j < k => hiddenOutline[j].lineNumber <= hiddenOutline[k].lineNumber

\* the four-line example: the heading in the comment line is no entry, the
\* comment line is removed, and the two headings of lines 2 and 4 are shown
\* at the visible lines 1 and 3
C29_Witness ==
    /\ outlinePc = "mapped"
    /\ textContent = CommentExampleContent
    /\ visibleLineMap = <<0, 1, 2, 3>>
    /\ Len(hiddenOutline) = 2
    /\ hiddenOutline[1].lineNumber = 1
    /\ hiddenOutline[2].lineNumber = 3


-----------------------------------------------------------------------------
(* Properties of the page state across loads *)

\* a handleArxivSubmit, handleDiffSubmit or loadDiffPair call has not returned
InFlight(r) == requests[r].pc # "done"

NoLoadInFlight == \A r \in 1..Len(requests) : ~InFlight(r)

\* C24: whenever no load is in flight and diffEntries is not empty, diffEntries
\* is the comparison loaded for the versions diffFromVersion and diffToVersion
\* of the paper diffBaseId, also after a handleDiffSubmit or loadDiffPair call
\* that failed
C24_DiffEntriesMatchPair ==
    NoLoadInFlight /\ Len(app.diffEntries) > 0 =>
        /\ app.diffEntriesOwner \in 1..Len(requests)
        /\ requests[app.diffEntriesOwner].arxivId = app.diffBaseId
        /\ requests[app.diffEntriesOwner].fromVersion = app.diffFromVersion
        /\ requests[app.diffEntriesOwner].toVersion = app.diffToVersion

\* the file is one of the files listed
InFiles(file, files) ==
    \E k \in 1..Len(files) :
        files[k].path = file.path /\ files[k].zipText = file.zipText

\* C25: whenever no load is in flight, selectedFile is null or one of files,
\* and selectedDiffFilePath is null or the path of an entry of diffEntries
C25_SelectionInLoadedSet ==
    NoLoadInFlight =>
        /\ app.selectedFile = Null \/ InFiles(app.selectedFile, app.files)
        /\ \/ app.selectedDiffFilePath = Null
           \/ \E k \in 1..Len(app.diffEntries) :
                 Str(app.diffEntries[k].path) = app.selectedDiffFilePath

\* C26: loading is true whenever a handleArxivSubmit, handleDiffSubmit or
\* loadDiffPair call is still in flight
C26_LoadingWhileInFlight ==
    (\E r \in 1..Len(requests) : InFlight(r)) => app.loading

\* C28: in browse mode, whenever files is not empty, paperId is the id of the
\* archive the files were loaded from
C28_PaperIdNamesLoadedArchive ==
    app.appMode = "browse" /\ Len(app.files) > 0 => app.paperId = app.filesSource


\* C27: once every request awaited has settled, loading and initialLoading
\* are both false: a handleArxivSubmit, handleDiffSubmit or loadDiffPair call
\* in flight leads to a state where no call is in flight and both flags are
\* false, on success, on each early return and on every failure path
C27_LoadingEnds ==
    (\E r \in 1..Len(requests) : InFlight(r))
        ~> (NoLoadInFlight /\ ~app.loading /\ ~app.initialLoading)

\* a call made by the mount effect has returned and the spinner of the first
\* load is gone
C27_Witness ==
    /\ Len(requests) > 0
    /\ requests[1].options.skipHistory
    /\ NoLoadInFlight
    /\ ~app.loading
    /\ ~app.initialLoading


-----------------------------------------------------------------------------
(* Properties of the consumers of file contents *)

\* C21: across any sequence of consumers the text of a FileEntry is
\* decompressed at most once: every later request is served from the content
\* cached on the entry
C21_DecompressedAtMostOnce ==
    \A k \in 1..Len(decompressions) : decompressions[k] <= 1


-----------------------------------------------------------------------------
(* Properties of the object URLs of the viewers *)

\* the viewer has left the file of run i: it shows a later file or is
\* unmounted
LeftFile(i) == i < Len(urlLoads) \/ ~urlViewer.mounted

\* C22: every object URL a viewer has created for a file is revoked once the
\* viewer has left the file, whether the blob load of the file settles before
\* or after the viewer leaves it
C22_ObjectUrlsRevoked ==
    \A i \in 1..Len(urlLoads) :
        LeftFile(i) /\ urlLoads[i].pc = "settled" =>
            urlLoads[i].created \subseteq objectUrls.revoked

-----------------------------------------------------------------------------
(* Properties of the source cache of the backend *)

\* C30, as stated: after manageCacheSize runs, the cache directory holds at
\* most 100 zip files, every file it deleted has a modification time no later
\* than that of every file it kept, and the files kept are the most recently
\* built or served: every kept file was built or served after every deleted
\* one
C30_KeepsMostRecent ==
    cacheRun.managed =>
        /\ Cardinality(CachedPapers(cacheDir)) <= CACHE_LIMIT
        /\ \A deleted \in cacheRun.deleted : \A kept \in CachedPapers(cacheDir) :
               /\ deleted.mtime <= cacheDir[kept].mtime
               /\ deleted.used < cacheDir[kept].used

=============================================================================
